---------------------------- MODULE Spec2Model ----------------------------
(***************************************************************************)
(* The snake mini-game of src/src/components/SnakeDonerGame.tsx: the       *)
(* GameState record, the interval callback (tick), queueTurn, startNewRun  *)
(* and the best-score storage effect.                                      *)
(*                                                                         *)
(* Random draws (Math.random) are nondeterministic choices.  Each          *)
(* specification fixes a profile P: the finite sets the environment's      *)
(* inputs (timestamps, key presses) and the random draws are taken from.   *)
(* Every value a profile offers is a value the program can see.            *)
(***************************************************************************)
EXTENDS Integers, Sequences, FiniteSets, TLC

VARIABLES
    game,     \* the GameState held by useState (SnakeDonerGame.tsx:37-63)
    stored,   \* localStorage[BEST_SCORE_KEY]: a sequence of characters, <<>> when absent
    turns,    \* environment: key presses / swipes accepted so far
    ev,       \* history: what the last operation did (read by the properties only)
    timer     \* the four useState cells of PomodoroTimer (PomodoroTimer.tsx:27-30)

vars == <<game, stored, turns, ev, timer>>

---------------------------------------------------------------------------
(* Program constants *)

GRID_COLS == 20
GRID_ROWS == 12
TICK_MS == 60
BASE_SPEED_MS == 138
BOOST_DELTA_MS == 30
SLOW_DELTA_MS == 36
GREEN_DELTA_MS == 20
MIN_SPEED_MS == 72
MAX_SPEED_MS == 235
RED_MS == 2400
GREEN_MS == 4200
NAZAR_BOOST_MS == 3600
NAZAR_SCORE == 4
SIMIT_BOOST_MS == 4200
BAKLAVA_SLOW_MS == 5200
CAY_BOOST_MS == 3000
TEA_LIMIT == 5
TEA_FREEZE_MS == 3000
AYRAN_SLOW_MS == 5000
RAKI_DRUNK_MS == 5000
OVERLAY_MS == 2000
TRAFFIC_MIN_MS == 9000
TRAFFIC_MAX_MS == 14000
FIRST_TRAFFIC_MAX_MS == 13000
NAZAR_MIN_MS == 12000
NAZAR_MAX_MS == 18000
FIRST_NAZAR_MIN_MS == 10000
FIRST_NAZAR_MAX_MS == 16000

(* Bounds of the model *)

MountMs == 1000      \* Date.now() when the component mounts
MaxTicks == 10       \* Spec: timestamps stay within MaxTicks tick periods of the mount
MaxIdleTicks == 1    \* ticks that pass while the start / game-over overlay is shown
MaxTurns == 3        \* Spec: accepted turn requests
MaxWrapTicks == 37   \* SpecWrap: tick periods, enough to cross the grid
MaxWrapTurns == 1    \* SpecWrap: accepted turn requests
MaxTeaTicks == 61    \* SpecTea: tick periods, enough for five cay, the break and a sixth
MaxCharmTicks == 300 \* SpecCharm: tick periods, enough for a charm to appear and be reached
MaxStoreTicks == 8   \* SpecStore: tick periods
MaxTeaCells == 6     \* SpecTea: the food is drawn on the MaxTeaCells cells ahead of the snake
MaxOverTicks == 11   \* SpecOver: tick periods, enough for a run to end and the overlay to wait
MaxBoundedTicks == 13 \* bounded variant: tick periods, enough to reach the bottom wall
MaxMenuTicks == 7    \* SpecFood: tick periods of the runs with the whole menu, enough for two foods
MaxSoundTicks == 10  \* SpecSound: tick periods
MaxFullTicks == 8    \* SpecFull: tick periods
LateMs == 600000     \* SpecFull: how long after the mount the long run is looked at
MaxBoundedTurns == 2 \* bounded variant: accepted turn requests
MaxLightTicks == 345 \* SpecLights: tick periods, enough for a light to end and the next to start
MaxLagTicks == 10    \* SpecLag: the longest gap between two ticks, in tick periods
MaxEventTicks == 10  \* SpecEvents: tick periods; a light comes due within them
MaxSpeedTicks == 3   \* SpecSpeed: deadlines and timestamps lie within MaxSpeedTicks tick periods
MaxLiveTicks == 110  \* SpecLive: tick periods, enough for a break, a red light and the wait after them
MaxModsTicks == 12   \* SpecMods: tick periods, enough to eat twice, bite the tail and start again
MaxKeepTicks == 370  \* SpecKeep: tick periods, enough for the second charm to come due
MaxTabTicks == 4     \* SpecTabs: tick periods of each of the two tabs, enough to eat the food ahead
MaxLiveCells == 8    \* SpecLive: the food is drawn on the MaxLiveCells cells below the snake's head

---------------------------------------------------------------------------
(* Types and tables *)

Point(px, py) == [x |-> px, y |-> py]

Cells == {Point(cx, cy) : cx \in 0..(GRID_COLS - 1), cy \in 0..(GRID_ROWS - 1)}

DIRECTIONS ==
    [up |-> Point(0, -1), down |-> Point(0, 1), left |-> Point(-1, 0), right |-> Point(1, 0)]

Directions == {DIRECTIONS.up, DIRECTIONS.down, DIRECTIONS.left, DIRECTIONS.right}

FoodTypes == {"simit", "doner", "baklava", "cay", "ayran", "kahve", "raki"}

FOOD_META ==
    [simit   |-> [score |-> 8,  grow |-> 1],
     doner   |-> [score |-> 12, grow |-> 2],
     baklava |-> [score |-> 16, grow |-> 1],
     cay     |-> [score |-> 7,  grow |-> 1],
     ayran   |-> [score |-> 9,  grow |-> 1],
     kahve   |-> [score |-> 10, grow |-> 1],
     raki    |-> [score |-> 11, grow |-> 1]]

FOOD_POOL ==
    <<"simit", "simit", "simit", "doner", "doner", "baklava", "cay", "cay",
      "ayran", "kahve", "raki">>

DEATH_LINES ==
    <<"Of be abi yine mi?", "Yandi gulum keten helva.", "Hayat devam ediyor.",
      "Kuyruga carptin. Canin sag olsun.">>

FORTUNE_LINES ==
    <<"Fal: kismetin aciliyor.", "Fal: dikkat, trafikte yavasla.",
      "Fal: bugun sans senden yana.", "Fal: sabirli olursan skor patlar.">>

NoLine == ""         \* let line: string | null = null
NoTone == "null"     \* ToneKey | null
NoNazar == <<>>      \* nazar: Point | null, a present charm is <<p>>

Max(a, b) == IF a >= b THEN a ELSE b
Min(a, b) == IF a <= b THEN a ELSE b

(* JavaScript's %: the result has the sign of the dividend *)
JsMod(a, n) == IF a >= 0 THEN a % n ELSE -((-a) % n)

SeqToSet(s) == {s[i] : i \in 1..Len(s)}


---------------------------------------------------------------------------
(* Helpers of the component *)

(* randomInt(min, max): any integer of min..max; a profile samples the ends *)
randomInt(min, max, P) == {min} \cup (IF P.spread THEN {max} ELSE {})

samePoint(a, b) == a.x = b.x /\ a.y = b.y

(* The cell the two scan loops of randomCell return; {x: 0, y: 0} when none is free *)
firstFreeCell(excluded) ==
    LET free == Cells \ excluded
    IN  IF free = {}
        THEN Point(0, 0)
        ELSE CHOOSE p \in free :
                 \A q \in free : p.y < q.y \/ (p.y = q.y /\ p.x <= q.x)

(* randomCell(excluded): `pick` is the first random point that is drawn free; *)
(* when the draws keep hitting excluded cells the scan decides.               *)
randomCell(excluded, pick) ==
    IF pick \notin excluded THEN pick ELSE firstFreeCell(excluded)

pickFoodType(P) == SeqToSet(FOOD_POOL) \cap P.types

(* Faulty variant: a green light takes off as much as a boost does *)
getSpeedMsGreenAsBoost(state, now) ==
    LET s0 == BASE_SPEED_MS
        s1 == IF now < state.speedBoostUntil THEN s0 - BOOST_DELTA_MS ELSE s0
        s2 == IF now < state.slowUntil THEN s1 + SLOW_DELTA_MS ELSE s1
        s3 == IF state.trafficState = "green" /\ now < state.trafficUntil
              THEN s2 - BOOST_DELTA_MS ELSE s2
    IN  Max(MIN_SPEED_MS, Min(MAX_SPEED_MS, s3))

(* Faulty variant: only the first effect that applies is counted *)
getSpeedMsFirstOnly(state, now) ==
    LET s0 == BASE_SPEED_MS
        s3 == IF now < state.speedBoostUntil THEN s0 - BOOST_DELTA_MS
              ELSE IF now < state.slowUntil THEN s0 + SLOW_DELTA_MS
              ELSE IF state.trafficState = "green" /\ now < state.trafficUntil
              THEN s0 - GREEN_DELTA_MS ELSE s0
    IN  Max(MIN_SPEED_MS, Min(MAX_SPEED_MS, s3))

(* 217-229 *)
getSpeedMs(state, now) ==
    LET s0 == BASE_SPEED_MS
        s1 == IF now < state.speedBoostUntil THEN s0 - BOOST_DELTA_MS ELSE s0
        s2 == IF now < state.slowUntil THEN s1 + SLOW_DELTA_MS ELSE s1
        s3 == IF state.trafficState = "green" /\ now < state.trafficUntil
              THEN s2 - GREEN_DELTA_MS ELSE s2
    IN  Max(MIN_SPEED_MS, Min(MAX_SPEED_MS, s3))

(* 472-484: the speed label shown beside the board *)
speedLabel(g) ==
    LET speed == getSpeedMs(g, g.nowMs)
    IN  IF speed <= 85 THEN "Cok hizli"
        ELSE IF speed <= 120 THEN "Hizli"
        ELSE IF speed <= 160 THEN "Normal"
        ELSE "Yavas"

(* String(n) for an integer n >= 0: its decimal digits *)
DigitChars == <<"0", "1", "2", "3", "4", "5", "6", "7", "8", "9">>

RECURSIVE NumberToString(_)
NumberToString(n) ==
    IF n < 10 THEN <<DigitChars[n + 1]>>
    ELSE Append(NumberToString(n \div 10), DigitChars[(n % 10) + 1])

IsDigit(c) == \E i \in 1..10 : DigitChars[i] = c
DigitValue(c) == (CHOOSE i \in 1..10 : DigitChars[i] = c) - 1

(* Number.parseInt(s, 10) on the digits that lead s; NaN is -1 here, which the *)
(* caller's test (finite and > 0) treats as it treats NaN                      *)
RECURSIVE parseDigits(_, _, _)
parseDigits(s, i, acc) ==
    IF i > Len(s) \/ ~IsDigit(s[i]) THEN acc
    ELSE parseDigits(s, i + 1, acc * 10 + DigitValue(s[i]))

parseInt(s) ==
    IF Len(s) >= 1 /\ IsDigit(s[1]) THEN parseDigits(s, 1, 0)
    ELSE IF Len(s) >= 2 /\ s[1] = "-" /\ IsDigit(s[2]) THEN -parseDigits(s, 2, 0)
    ELSE -1

readBestScoreFromStorage(item) ==
    IF item = <<>> THEN 0
    ELSE LET parsed == parseInt(item) IN IF parsed > 0 THEN parsed ELSE 0

(* Faulty variant: the effect does not run again when bestScore changes *)
bestScoreEffectOnce(before, after, item) == item

(* The effect on [game.bestScore]: localStorage.setItem(key, String(bestScore)) *)
bestScoreEffect(before, after, item) ==
    IF after.bestScore # before.bestScore THEN NumberToString(after.bestScore) ELSE item

INITIAL_SNAKE == <<Point(8, 6), Point(7, 6), Point(6, 6), Point(5, 6)>>

createInitialGame(now, bestScore, P) ==
    LET snake == INITIAL_SNAKE
        blocked == SeqToSet(snake)
    IN  { [phase |-> "ready",
           bestScore |-> bestScore,
           snake |-> snake,
           direction |-> DIRECTIONS.right,
           pendingDirection |-> DIRECTIONS.right,
           food |-> [x |-> randomCell(blocked, c).x, y |-> randomCell(blocked, c).y,
                     type |-> t],
           nazar |-> NoNazar,
           score |-> 0,
           lastStepAt |-> now,
           nowMs |-> now,
           speedBoostUntil |-> 0,
           slowUntil |-> 0,
           freezeUntil |-> 0,
           teaStreak |-> 0,
           trafficState |-> "none",
           trafficUntil |-> 0,
           nextTrafficAt |-> now + ti,
           nextNazarAt |-> now + ni,
           drunkUntil |-> 0,
           overlayKey |-> "null",
           overlayUntil |-> 0,
           gameOverLine |-> "",
           voiceLine |-> "Yilan doner hazir. Baslayalim.",
           eventId |-> 0,
           eventTone |-> NoTone] :
          c \in P.cells, t \in pickFoodType(P),
          ti \in randomInt(TRAFFIC_MIN_MS, FIRST_TRAFFIC_MAX_MS, P),
          ni \in randomInt(FIRST_NAZAR_MIN_MS, FIRST_NAZAR_MAX_MS, P) }

(* Faulty variant: the modifier deadlines of the last run are carried over *)
startNewRunKeepsModifiers(prev, now, P) ==
    { [fresh EXCEPT !.phase = "running",
                    !.eventId = prev.eventId + 1,
                    !.eventTone = "start",
                    !.voiceLine = "Afiyet olsun abi, basladik.",
                    !.speedBoostUntil = prev.speedBoostUntil,
                    !.drunkUntil = prev.drunkUntil] :
      fresh \in createInitialGame(now, prev.bestScore, P) }

(* 640-649 *)
startNewRun(prev, now, P) ==
    { [fresh EXCEPT !.phase = "running",
                    !.eventId = prev.eventId + 1,
                    !.eventTone = "start",
                    !.voiceLine = "Afiyet olsun abi, basladik."] :
      fresh \in createInitialGame(now, prev.bestScore, P) }

isOpposite(desired, direction) ==
    desired.x = -direction.x /\ desired.y = -direction.y

(* Faulty variant: a turn is also queued while the game is over *)
queueTurnWhenOver(prev, requested) ==
    IF isOpposite(requested, prev.direction) THEN prev
    ELSE [prev EXCEPT !.pendingDirection = requested]

(* Faulty variant: a reversal is queued like any other request *)
queueTurnUnchecked(prev, requested) ==
    IF prev.phase = "game_over" THEN prev
    ELSE [prev EXCEPT !.pendingDirection = requested]

(* Faulty variant: a turn already queued is not overwritten *)
queueTurnKeepsFirst(prev, requested) ==
    IF prev.phase = "game_over" THEN prev
    ELSE IF isOpposite(requested, prev.direction) THEN prev
    ELSE IF prev.pendingDirection # prev.direction THEN prev
    ELSE [prev EXCEPT !.pendingDirection = requested]

(* Faulty variant: the request is compared with the queued direction *)
queueTurnAgainstPending(prev, requested) ==
    IF prev.phase = "game_over" THEN prev
    ELSE IF isOpposite(requested, prev.pendingDirection) THEN prev
    ELSE [prev EXCEPT !.pendingDirection = requested]

(* Faulty variant: a request for the current direction is dropped *)
queueTurnIgnoreSame(prev, requested) ==
    IF prev.phase = "game_over" THEN prev
    ELSE IF isOpposite(requested, prev.direction) \/ requested = prev.direction THEN prev
    ELSE [prev EXCEPT !.pendingDirection = requested]

(* 651-668 *)
queueTurn(prev, requested) ==
    IF prev.phase = "game_over" THEN prev
    ELSE IF isOpposite(requested, prev.direction) THEN prev
    ELSE [prev EXCEPT !.pendingDirection = requested]

---------------------------------------------------------------------------
(* The interval callback (tick), SnakeDonerGame.tsx:699-943.  Each stage   *)
(* yields the set of its possible results; a result carries the state, the *)
(* pending flavor event (line, tone) and what the tick did.                *)

NoPoint == Point(-1, -1)

Outcome(g, line, tone, kind, newHead, ate, ateNazar) ==
    [g |-> g, line |-> line, tone |-> tone, kind |-> kind, newHead |-> newHead,
     ate |-> ate, ateNazar |-> ateNazar]

(* Faulty variant: an event is counted in every tick *)
applyEventAlways(state, line, tone, prev) ==
    [state EXCEPT !.eventId = prev.eventId + 1,
                  !.eventTone = tone,
                  !.voiceLine = IF line = NoLine THEN state.voiceLine ELSE line]

(* applyEvent: the event is emitted only when both line and tone are set *)
applyEvent(state, line, tone, prev) ==
    IF line = NoLine \/ tone = NoTone THEN state
    ELSE [state EXCEPT !.eventId = prev.eventId + 1,
                       !.eventTone = tone,
                       !.voiceLine = line]

(* Faulty variant: the light stays one tick past its window *)
trafficExpireLate(next, now, P) ==
    IF next.trafficState # "none" /\ now > next.trafficUntil
    THEN { [next EXCEPT !.trafficState = "none",
                        !.trafficUntil = 0,
                        !.nextTrafficAt = now + i] :
           i \in randomInt(TRAFFIC_MIN_MS, TRAFFIC_MAX_MS, P) }
    ELSE {next}

(* Faulty variant: the next light is due as soon as the last one ends *)
trafficExpireDueNow(next, now, P) ==
    IF next.trafficState # "none" /\ now >= next.trafficUntil
    THEN { [next EXCEPT !.trafficState = "none",
                        !.trafficUntil = 0,
                        !.nextTrafficAt = now] }
    ELSE {next}

(* 730-737: a light whose window is over goes back to none *)
trafficExpire(next, now, P) ==
    IF next.trafficState # "none" /\ now >= next.trafficUntil
    THEN { [next EXCEPT !.trafficState = "none",
                        !.trafficUntil = 0,
                        !.nextTrafficAt = now + i] :
           i \in randomInt(TRAFFIC_MIN_MS, TRAFFIC_MAX_MS, P) }
    ELSE {next}

(* 739-760: a new light, red when Math.random() < 0.55 *)
trafficRoll(next, now, P) ==
    IF next.trafficState = "none" /\ now >= next.nextTrafficAt
    THEN { IF goesRed
           THEN Outcome([next EXCEPT !.trafficState = "red",
                                     !.trafficUntil = now + RED_MS,
                                     !.nextTrafficAt = now + i],
                        "Kirmizi isik. Dur!", "danger", "", NoPoint, "", FALSE)
           ELSE Outcome([next EXCEPT !.trafficState = "green",
                                     !.trafficUntil = now + GREEN_MS,
                                     !.nextTrafficAt = now + i],
                        "Yesil yandi. Bas gaza!", "boost", "", NoPoint, "", FALSE) :
           goesRed \in BOOLEAN, i \in randomInt(TRAFFIC_MIN_MS, TRAFFIC_MAX_MS, P) }
    ELSE { Outcome(next, NoLine, NoTone, "", NoPoint, "", FALSE) }

(* Faulty variant: the food cell is not excluded when the charm is placed *)
nazarSpawnOverFood(o, now, P) ==
    IF o.g.nazar = NoNazar /\ now >= o.g.nextNazarAt
    THEN LET blocked == SeqToSet(o.g.snake)
         IN  { [o EXCEPT !.g = [o.g EXCEPT !.nazar = <<randomCell(blocked, c)>>,
                                           !.nextNazarAt = now + i]] :
               c \in P.cells, i \in randomInt(NAZAR_MIN_MS, NAZAR_MAX_MS, P) }
    ELSE {o}

(* Faulty variant: a charm that is due replaces the one still lying there *)
nazarSpawnReplaces(o, now, P) ==
    IF now >= o.g.nextNazarAt
    THEN LET blocked == SeqToSet(o.g.snake) \cup {Point(o.g.food.x, o.g.food.y)}
         IN  { [o EXCEPT !.g = [o.g EXCEPT !.nazar = <<randomCell(blocked, c)>>,
                                           !.nextNazarAt = now + i]] :
               c \in P.cells, i \in randomInt(NAZAR_MIN_MS, NAZAR_MAX_MS, P) }
    ELSE {o}

(* 762-770: the charm appears on a cell off the snake and off the food *)
nazarSpawn(o, now, P) ==
    IF o.g.nazar = NoNazar /\ now >= o.g.nextNazarAt
    THEN LET blocked == SeqToSet(o.g.snake) \cup {Point(o.g.food.x, o.g.food.y)}
         IN  { [o EXCEPT !.g = [o.g EXCEPT !.nazar = <<randomCell(blocked, c)>>,
                                           !.nextNazarAt = now + i]] :
               c \in P.cells, i \in randomInt(NAZAR_MIN_MS, NAZAR_MAX_MS, P) }
    ELSE {o}

(* Faulty variant: the size is not added before the remainder is taken *)
wrapNoAdd(v, size) == JsMod(v, size)

(* 789-790 *)
wrap(v, size) == JsMod(v + size, size)

(* Faulty variant: the wobble is added along the travel axis *)
computeNewHeadWobbleAhead(next, now, P) ==
    LET direction == next.pendingDirection
        head == next.snake[1]
        fwd == Point(wrap(head.x + direction.x, GRID_COLS),
                     wrap(head.y + direction.y, GRID_ROWS))
    IN  IF now < next.drunkUntil
        THEN { IF direction.x # 0
               THEN Point(wrap(fwd.x + wobble, GRID_COLS), fwd.y)
               ELSE Point(fwd.x, wrap(fwd.y + wobble, GRID_ROWS)) :
               wobble \in {-1, 1} }
        ELSE {fwd}

(* 784-807: the new head, forward one cell and, when drunk, one cell sideways *)
computeNewHead(next, now, P) ==
    LET direction == next.pendingDirection
        head == next.snake[1]
        fwd == Point(wrap(head.x + direction.x, GRID_COLS),
                     wrap(head.y + direction.y, GRID_ROWS))
    IN  IF now < next.drunkUntil
        THEN { IF direction.x # 0
               THEN Point(fwd.x, wrap(fwd.y + wobble, GRID_ROWS))
               ELSE Point(wrap(fwd.x + wobble, GRID_COLS), fwd.y) :
               wobble \in {-1, 1} }
        ELSE {fwd}

(* Faulty variant: the best score is not raised *)
bestOfStale(bestScore, score) == bestScore

(* 819, 930: Math.max(next.bestScore, score) *)
bestOf(bestScore, score) == Max(bestScore, score)

(* Faulty variant: the tail cell, about to move away, is not checked *)
hitSelfNoTail(snake, newHead) ==
    \E i \in 1..(Len(snake) - 1) : samePoint(snake[i], newHead)

(* Faulty variant: only the segments next to the head are checked *)
hitSelfNearHead(snake, newHead) ==
    \E i \in 1..Min(3, Len(snake)) : samePoint(snake[i], newHead)

(* 809 *)
hitSelf(snake, newHead) == \E i \in 1..Len(snake) : samePoint(snake[i], newHead)

(* 811-821 *)
gameOver(o, newHead, P) ==
    { Outcome([o.g EXCEPT !.phase = "game_over",
                          !.gameOverLine = DEATH_LINES[k],
                          !.bestScore = bestOf(o.g.bestScore, o.g.score)],
              DEATH_LINES[k], "dead", "dead", newHead, "", FALSE) :
      k \in P.lines }

(* 853-858: grow - 1 copies of the old tail are pushed *)
RECURSIVE pushTail(_, _, _)
pushTail(snake, tail, n) ==
    IF n <= 0 THEN snake ELSE pushTail(Append(snake, tail), tail, n - 1)

(* Faulty variant: every food grows the snake by one *)
growSnakeByOne(snake, oldSnake, grow) == snake

(* Faulty variant: as many tail copies as the food's growth *)
growSnakeFullCount(snake, oldSnake, grow) ==
    IF grow > 1 THEN pushTail(snake, oldSnake[Len(oldSnake)], grow) ELSE snake

(* 853-858: the growth of the food eaten *)
growSnake(snake, oldSnake, grow) ==
    IF grow > 1 THEN pushTail(snake, oldSnake[Len(oldSnake)], grow - 1) ELSE snake

(* 919: snake.pop() *)
popTail(snake) == SubSeq(snake, 1, Len(snake) - 1)

(* Faulty variant: the charm counts as food for the tea streak *)
eatNazarResetsStreak(st, newHead, now) ==
    IF st.nazar # NoNazar /\ samePoint(newHead, st.nazar[1])
    THEN [st EXCEPT !.speedBoostUntil = Max(st.speedBoostUntil, now + NAZAR_BOOST_MS),
                    !.score = st.score + NAZAR_SCORE,
                    !.nazar = NoNazar,
                    !.teaStreak = 0,
                    !.line = "Nazar enerjisi. Hizlandin!",
                    !.tone = "boost",
                    !.ateNazar = TRUE]
    ELSE st

(* 840-846: the charm under the new head *)
eatNazar(st, newHead, now) ==
    IF st.nazar # NoNazar /\ samePoint(newHead, st.nazar[1])
    THEN [st EXCEPT !.speedBoostUntil = Max(st.speedBoostUntil, now + NAZAR_BOOST_MS),
                    !.score = st.score + NAZAR_SCORE,
                    !.nazar = NoNazar,
                    !.line = "Nazar enerjisi. Hizlandin!",
                    !.tone = "boost",
                    !.ateNazar = TRUE]
    ELSE st

(* Faulty variant: the break comes one cay late *)
eatCayLate(st, now) ==
    LET streak == st.teaStreak + 1
        boosted == [st EXCEPT !.speedBoostUntil = Max(st.speedBoostUntil, now + CAY_BOOST_MS)]
    IN  IF streak > TEA_LIMIT
        THEN [boosted EXCEPT !.teaStreak = 0,
                             !.freezeUntil = now + TEA_FREEZE_MS,
                             !.line = "5 cay oldu. Zorunlu cay molasi (3 sn).",
                             !.tone = "danger"]
        ELSE [boosted EXCEPT !.teaStreak = streak,
                             !.line = "Cay geldi. Kafein patlamasi.",
                             !.tone = "boost"]

(* Faulty variant: the boost deadline is overwritten, not raised *)
eatCayOverwrite(st, now) ==
    LET streak == st.teaStreak + 1
        boosted == [st EXCEPT !.speedBoostUntil = now + CAY_BOOST_MS]
    IN  IF streak >= TEA_LIMIT
        THEN [boosted EXCEPT !.teaStreak = 0,
                             !.freezeUntil = now + TEA_FREEZE_MS,
                             !.line = "5 cay oldu. Zorunlu cay molasi (3 sn).",
                             !.tone = "danger"]
        ELSE [boosted EXCEPT !.teaStreak = streak,
                             !.line = "Cay geldi. Kafein patlamasi.",
                             !.tone = "boost"]

(* 874-884 *)
eatCay(st, now) ==
    LET streak == st.teaStreak + 1
        boosted == [st EXCEPT !.speedBoostUntil = Max(st.speedBoostUntil, now + CAY_BOOST_MS)]
    IN  IF streak >= TEA_LIMIT
        THEN [boosted EXCEPT !.teaStreak = 0,
                             !.freezeUntil = now + TEA_FREEZE_MS,
                             !.line = "5 cay oldu. Zorunlu cay molasi (3 sn).",
                             !.tone = "danger"]
        ELSE [boosted EXCEPT !.teaStreak = streak,
                             !.line = "Cay geldi. Kafein patlamasi.",
                             !.tone = "boost"]

(* 860-907: the effect of the eaten type *)
foodEffect(st, eaten, now, P) ==
    IF eaten = "simit"
    THEN { [st EXCEPT !.speedBoostUntil = Max(st.speedBoostUntil, now + SIMIT_BOOST_MS),
                      !.line = "Simit etkisi. Hizlandin.", !.tone = "boost",
                      !.teaStreak = 0] }
    ELSE IF eaten = "doner"
    THEN { [st EXCEPT !.line = "Ekmek arasi mi olsun?", !.tone = "eat", !.teaStreak = 0] }
    ELSE IF eaten = "baklava"
    THEN { [st EXCEPT !.slowUntil = Max(st.slowUntil, now + BAKLAVA_SLOW_MS),
                      !.line = "Serbet komasi. Biraz yavas.", !.tone = "eat",
                      !.teaStreak = 0] }
    ELSE IF eaten = "cay"
    THEN { eatCay(st, now) }
    ELSE IF eaten = "ayran"
    THEN { [st EXCEPT !.slowUntil = Max(st.slowUntil, now + AYRAN_SLOW_MS),
                      !.overlayKey = "ayran", !.overlayUntil = now + OVERLAY_MS,
                      !.line = "Rehavet coktu. 5 saniye yavas!", !.tone = "danger",
                      !.teaStreak = 0] }
    ELSE IF eaten = "kahve"
    THEN { [st EXCEPT !.line = FORTUNE_LINES[k], !.tone = "fortune", !.teaStreak = 0] :
           k \in P.lines }
    ELSE \* raki
         { [st EXCEPT !.drunkUntil = Max(st.drunkUntil, now + RAKI_DRUNK_MS),
                      !.overlayKey = "raki", !.overlayUntil = now + OVERLAY_MS,
                      !.line = "Cok sarhossun. 5 saniye yalpalama!", !.tone = "danger",
                      !.teaStreak = 0] }

(* Faulty variant: the new food cell is not checked against the snake *)
relocateFoodAnywhere(st, P) ==
    { [st EXCEPT !.food = [x |-> c.x, y |-> c.y, type |-> t]] :
      c \in P.cells, t \in pickFoodType(P) }

(* 909-917: the food moves to a cell off the grown snake and off a live charm *)
relocateFood(st, P) ==
    LET blocked == SeqToSet(st.snake) \cup
                   (IF st.nazar # NoNazar THEN {st.nazar[1]} ELSE {})
    IN  { [st EXCEPT !.food = [x |-> randomCell(blocked, c).x,
                               y |-> randomCell(blocked, c).y,
                               type |-> t]] :
          c \in P.cells, t \in pickFoodType(P) }

(* 848-920: the food under the new head, or the tail pop *)
eatFood(st, next, newHead, now, P) ==
    IF samePoint(newHead, next.food)
    THEN LET eaten == next.food.type
             meta == FOOD_META[eaten]
             fed == [st EXCEPT !.score = st.score + meta.score,
                               !.snake = growSnake(st.snake, next.snake, meta.grow),
                               !.ate = eaten]
         IN  UNION { relocateFood(e, P) : e \in foodEffect(fed, eaten, now, P) }
    ELSE { [st EXCEPT !.snake = popTail(st.snake)] }

(* Faulty variant: the step is booked one base interval after the last one *)
stepStampCatchUp(lastStepAt, now) == lastStepAt + BASE_SPEED_MS

(* 938: lastStepAt: now *)
stepStamp(lastStepAt, now) == now

(* 823-941: the movement step once the new head is free *)
moveStep(o, newHead, now, P) ==
    LET next == o.g
        direction == next.pendingDirection
        st0 == [snake |-> <<newHead>> \o next.snake,
                score |-> next.score,
                speedBoostUntil |-> next.speedBoostUntil,
                slowUntil |-> next.slowUntil,
                freezeUntil |-> next.freezeUntil,
                teaStreak |-> next.teaStreak,
                food |-> next.food,
                nazar |-> next.nazar,
                drunkUntil |-> next.drunkUntil,
                overlayKey |-> IF next.overlayKey # "null" /\ now >= next.overlayUntil
                               THEN "null" ELSE next.overlayKey,
                overlayUntil |-> IF next.overlayKey # "null" /\ now >= next.overlayUntil
                                 THEN 0 ELSE next.overlayUntil,
                line |-> o.line,
                tone |-> o.tone,
                ate |-> "",
                ateNazar |-> FALSE]
        st1 == eatNazar(st0, newHead, now)
    IN  { Outcome([next EXCEPT !.snake = st.snake,
                               !.direction = direction,
                               !.pendingDirection = direction,
                               !.food = st.food,
                               !.nazar = st.nazar,
                               !.score = st.score,
                               !.bestScore = bestOf(next.bestScore, st.score),
                               !.speedBoostUntil = st.speedBoostUntil,
                               !.slowUntil = st.slowUntil,
                               !.freezeUntil = st.freezeUntil,
                               !.teaStreak = st.teaStreak,
                               !.drunkUntil = st.drunkUntil,
                               !.overlayKey = st.overlayKey,
                               !.overlayUntil = st.overlayUntil,
                               !.lastStepAt = stepStamp(next.lastStepAt, now)],
                  st.line, st.tone, "moved", newHead, st.ate, st.ateNazar) :
          st \in eatFood(st1, next, newHead, now, P) }

(* Faulty variant: the snake moves in every tick that is not paused *)
advanceUngated(o, now, P) ==
    IF o.g.trafficState = "red" /\ now < o.g.trafficUntil
    THEN { [o EXCEPT !.kind = "paused"] }
    ELSE IF now < o.g.freezeUntil
    THEN { [o EXCEPT !.kind = "paused"] }
    ELSE UNION { IF hitSelf(o.g.snake, newHead)
                 THEN gameOver(o, newHead, P)
                 ELSE moveStep(o, newHead, now, P) :
                 newHead \in computeNewHead(o.g, now, P) }

(* Faulty variant: the forced tea break does not stop the snake *)
advanceThroughFreeze(o, now, P) ==
    IF o.g.trafficState = "red" /\ now < o.g.trafficUntil
    THEN { [o EXCEPT !.kind = "paused"] }
    ELSE IF now - o.g.lastStepAt < getSpeedMs(o.g, now)
    THEN { [o EXCEPT !.kind = "gated"] }
    ELSE UNION { IF hitSelf(o.g.snake, newHead)
                 THEN gameOver(o, newHead, P)
                 ELSE moveStep(o, newHead, now, P) :
                 newHead \in computeNewHead(o.g, now, P) }

(* 772-821: the pauses, the speed gate, then the step or the death *)
advance(o, now, P) ==
    IF o.g.trafficState = "red" /\ now < o.g.trafficUntil
    THEN { [o EXCEPT !.kind = "paused"] }
    ELSE IF now < o.g.freezeUntil
    THEN { [o EXCEPT !.kind = "paused"] }
    ELSE IF now - o.g.lastStepAt < getSpeedMs(o.g, now)
    THEN { [o EXCEPT !.kind = "gated"] }
    ELSE UNION { IF hitSelf(o.g.snake, newHead)
                 THEN gameOver(o, newHead, P)
                 ELSE moveStep(o, newHead, now, P) :
                 newHead \in computeNewHead(o.g, now, P) }

(* Faulty variant: the tone of the last event is left in place *)
idleTickKeepsTone(prev, now) ==
    { Outcome([prev EXCEPT !.nowMs = now], NoLine, NoTone, "idle", NoPoint, "", FALSE) }

(* 716-722: the callback while the run is not on *)
idleTick(prev, now) ==
    { Outcome([prev EXCEPT !.nowMs = now, !.eventTone = NoTone],
              NoLine, NoTone, "idle", NoPoint, "", FALSE) }

(* The whole callback: the outcomes of one tick at time now *)
tick(prev, now, P) ==
    IF prev.phase # "running"
    THEN idleTick(prev, now)
    ELSE LET next == [prev EXCEPT !.nowMs = now, !.eventTone = NoTone]
             lit == UNION { trafficRoll(n, now, P) : n \in trafficExpire(next, now, P) }
             charmed == UNION { nazarSpawn(o, now, P) : o \in lit }
             done == UNION { advance(o, now, P) : o \in charmed }
         IN  { [o EXCEPT !.g = applyEvent(o.g, o.line, o.tone, prev)] : o \in done }

---------------------------------------------------------------------------
(* The bounded variant of the component (src/unnamed/part_001): a 22 x 14   *)
(* grid with walls, an ayran that reverses the controls, no raki.  Its      *)
(* GameState has reverseUntil in place of drunkUntil and the overlay fields. *)
(* The stages whose code is the same in both variants (the traffic light,   *)
(* the charm and cay effects, growth, the tail pop) are the operators above. *)

GRID_COLS_BOUNDED == 22
GRID_ROWS_BOUNDED == 14

CellsBounded ==
    {Point(cx, cy) : cx \in 0..(GRID_COLS_BOUNDED - 1), cy \in 0..(GRID_ROWS_BOUNDED - 1)}

DEATH_LINES_BOUNDED ==
    <<"Of be abi yine mi?", "Yandi gulum keten helva.", "Hayat devam ediyor.",
      "Duvara girdin, canin sag olsun.">>

EAT_LINES == <<"Afiyet olsun abi.", "Eline saglik.", "Bir cay daha?", "Cok iyi gidiyorsun.">>

firstFreeCellBounded(excluded) ==
    LET free == CellsBounded \ excluded
    IN  IF free = {}
        THEN Point(0, 0)
        ELSE CHOOSE p \in free :
                 \A q \in free : p.y < q.y \/ (p.y = q.y /\ p.x <= q.x)

randomCellBounded(excluded, pick) ==
    IF pick \notin excluded THEN pick ELSE firstFreeCellBounded(excluded)

pickFoodTypeBounded(P) == (SeqToSet(FOOD_POOL) \ {"raki"}) \cap P.types

getSpeedMsBounded(state, now) ==
    LET s0 == 138
        s1 == IF now < state.speedBoostUntil THEN s0 - 28 ELSE s0
        s2 == IF now < state.slowUntil THEN s1 + 36 ELSE s1
        s3 == IF state.trafficState = "green" /\ now < state.trafficUntil
              THEN s2 - 18 ELSE s2
    IN  Max(70, Min(240, s3))

INITIAL_SNAKE_BOUNDED == <<Point(10, 10), Point(9, 10), Point(8, 10), Point(7, 10)>>

createInitialGameBounded(now, bestScore, P) ==
    LET snake == INITIAL_SNAKE_BOUNDED
        blocked == SeqToSet(snake)
    IN  { [phase |-> "ready",
           bestScore |-> bestScore,
           snake |-> snake,
           direction |-> DIRECTIONS.right,
           pendingDirection |-> DIRECTIONS.right,
           food |-> [x |-> randomCellBounded(blocked, c).x,
                     y |-> randomCellBounded(blocked, c).y,
                     type |-> t],
           nazar |-> NoNazar,
           score |-> 0,
           lastStepAt |-> now,
           nowMs |-> now,
           speedBoostUntil |-> 0,
           slowUntil |-> 0,
           reverseUntil |-> 0,
           freezeUntil |-> 0,
           teaStreak |-> 0,
           trafficState |-> "none",
           trafficUntil |-> 0,
           nextTrafficAt |-> now + ti,
           nextNazarAt |-> now + ni,
           gameOverLine |-> "",
           voiceLine |-> "Yilan doner hazir. Baslayalim.",
           eventId |-> 0,
           eventTone |-> NoTone] :
          c \in P.cells, t \in pickFoodTypeBounded(P),
          ti \in randomInt(9000, 13000, P),
          ni \in randomInt(10000, 16000, P) }

startNewRunBounded(prev, now, P) ==
    { [fresh EXCEPT !.phase = "running",
                    !.eventId = prev.eventId + 1,
                    !.eventTone = "start",
                    !.voiceLine = "Afiyet olsun abi, basladik."] :
      fresh \in createInitialGameBounded(now, prev.bestScore, P) }

(* Faulty variant: the opposite test is made on the request as pressed, *)
(* before it is inverted                                               *)
queueTurnBoundedChecksFirst(prev, requested, now) ==
    IF prev.phase = "game_over" THEN prev
    ELSE IF requested.x = -prev.direction.x /\ requested.y = -prev.direction.y
    THEN prev
    ELSE [prev EXCEPT !.pendingDirection = IF now < prev.reverseUntil
                                           THEN Point(-requested.x, -requested.y)
                                           ELSE requested]

(* part_001:560-581: while the controls are reversed the request is inverted *)
queueTurnBounded(prev, requested, now) ==
    IF prev.phase = "game_over" THEN prev
    ELSE LET desired == IF now < prev.reverseUntil
                        THEN Point(-requested.x, -requested.y)
                        ELSE requested
         IN  IF desired.x = -prev.direction.x /\ desired.y = -prev.direction.y
             THEN prev
             ELSE [prev EXCEPT !.pendingDirection = desired]

nazarSpawnBounded(o, now, P) ==
    IF o.g.nazar = NoNazar /\ now >= o.g.nextNazarAt
    THEN LET blocked == SeqToSet(o.g.snake) \cup {Point(o.g.food.x, o.g.food.y)}
         IN  { [o EXCEPT !.g = [o.g EXCEPT !.nazar = <<randomCellBounded(blocked, c)>>,
                                           !.nextNazarAt = now + i]] :
               c \in P.cells, i \in randomInt(12000, 18000, P) }
    ELSE {o}

(* Faulty variant: the last column and the last row count as outside *)
outOfBoundsOffByOne(newHead) ==
    \/ newHead.x < 0
    \/ newHead.y < 0
    \/ newHead.x >= GRID_COLS_BOUNDED - 1
    \/ newHead.y >= GRID_ROWS_BOUNDED - 1

(* part_001:700-704 *)
outOfBounds(newHead) ==
    \/ newHead.x < 0
    \/ newHead.y < 0
    \/ newHead.x >= GRID_COLS_BOUNDED
    \/ newHead.y >= GRID_ROWS_BOUNDED

gameOverBounded(o, newHead, P) ==
    { Outcome([o.g EXCEPT !.phase = "game_over",
                          !.gameOverLine = DEATH_LINES_BOUNDED[k],
                          !.bestScore = Max(o.g.bestScore, o.g.score)],
              DEATH_LINES_BOUNDED[k], "dead", "dead", newHead, "", FALSE) :
      k \in P.lines }

foodEffectBounded(st, eaten, now, P) ==
    IF eaten = "simit"
    THEN { [st EXCEPT !.speedBoostUntil = Max(st.speedBoostUntil, now + 4200),
                      !.line = "Simit etkisi. Hizlandin.", !.tone = "boost",
                      !.teaStreak = 0] }
    ELSE IF eaten = "doner"
    THEN { [st EXCEPT !.line = "Ekmek arasi mi olsun?", !.tone = "eat", !.teaStreak = 0] }
    ELSE IF eaten = "baklava"
    THEN { [st EXCEPT !.slowUntil = Max(st.slowUntil, now + 5200),
                      !.line = "Serbet komasi. Biraz yavas.", !.tone = "eat",
                      !.teaStreak = 0] }
    ELSE IF eaten = "cay"
    THEN { eatCay(st, now) }
    ELSE IF eaten = "ayran"
    THEN { [st EXCEPT !.reverseUntil = now + 4200,
                      !.line = "Kopuk soku. Kontroller ters!", !.tone = "danger",
                      !.teaStreak = 0] }
    ELSE IF eaten = "kahve"
    THEN { [st EXCEPT !.line = FORTUNE_LINES[k], !.tone = "fortune", !.teaStreak = 0] :
           k \in P.lines }
    ELSE { [st EXCEPT !.line = EAT_LINES[k], !.tone = "eat", !.teaStreak = 0] :
           k \in P.lines }

relocateFoodBounded(st, P) ==
    LET blocked == SeqToSet(st.snake) \cup
                   (IF st.nazar # NoNazar THEN {st.nazar[1]} ELSE {})
    IN  { [st EXCEPT !.food = [x |-> randomCellBounded(blocked, c).x,
                               y |-> randomCellBounded(blocked, c).y,
                               type |-> t]] :
          c \in P.cells, t \in pickFoodTypeBounded(P) }

eatFoodBounded(st, next, newHead, now, P) ==
    IF samePoint(newHead, next.food)
    THEN LET eaten == next.food.type
             meta == FOOD_META[eaten]
             fed == [st EXCEPT !.score = st.score + meta.score,
                               !.snake = growSnake(st.snake, next.snake, meta.grow),
                               !.ate = eaten]
         IN  UNION { relocateFoodBounded(e, P) : e \in foodEffectBounded(fed, eaten, now, P) }
    ELSE { [st EXCEPT !.snake = popTail(st.snake)] }

moveStepBounded(o, newHead, now, P) ==
    LET next == o.g
        direction == next.pendingDirection
        st0 == [snake |-> <<newHead>> \o next.snake,
                score |-> next.score,
                speedBoostUntil |-> next.speedBoostUntil,
                slowUntil |-> next.slowUntil,
                reverseUntil |-> next.reverseUntil,
                freezeUntil |-> next.freezeUntil,
                teaStreak |-> next.teaStreak,
                food |-> next.food,
                nazar |-> next.nazar,
                line |-> o.line,
                tone |-> o.tone,
                ate |-> "",
                ateNazar |-> FALSE]
        st1 == eatNazar(st0, newHead, now)
    IN  { Outcome([next EXCEPT !.snake = st.snake,
                               !.direction = direction,
                               !.pendingDirection = direction,
                               !.food = st.food,
                               !.nazar = st.nazar,
                               !.score = st.score,
                               !.bestScore = Max(next.bestScore, st.score),
                               !.speedBoostUntil = st.speedBoostUntil,
                               !.slowUntil = st.slowUntil,
                               !.reverseUntil = st.reverseUntil,
                               !.freezeUntil = st.freezeUntil,
                               !.teaStreak = st.teaStreak,
                               !.lastStepAt = now],
                  st.line, st.tone, "moved", newHead, st.ate, st.ateNazar) :
          st \in eatFoodBounded(st1, next, newHead, now, P) }

(* part_001:686-717: the pauses, the speed gate, then the step or the death *)
advanceBounded(o, now, P) ==
    IF o.g.trafficState = "red" /\ now < o.g.trafficUntil
    THEN { [o EXCEPT !.kind = "paused"] }
    ELSE IF now < o.g.freezeUntil
    THEN { [o EXCEPT !.kind = "paused"] }
    ELSE IF now - o.g.lastStepAt < getSpeedMsBounded(o.g, now)
    THEN { [o EXCEPT !.kind = "gated"] }
    ELSE LET direction == o.g.pendingDirection
             head == o.g.snake[1]
             newHead == Point(head.x + direction.x, head.y + direction.y)
         IN  IF outOfBounds(newHead) \/ hitSelf(o.g.snake, newHead)
             THEN gameOverBounded(o, newHead, P)
             ELSE moveStepBounded(o, newHead, now, P)

tickBounded(prev, now, P) ==
    IF prev.phase # "running"
    THEN { Outcome([prev EXCEPT !.nowMs = now, !.eventTone = NoTone],
                   NoLine, NoTone, "idle", NoPoint, "", FALSE) }
    ELSE LET next == [prev EXCEPT !.nowMs = now, !.eventTone = NoTone]
             lit == UNION { trafficRoll(n, now, P) : n \in trafficExpire(next, now, P) }
             charmed == UNION { nazarSpawnBounded(o, now, P) : o \in lit }
             done == UNION { advanceBounded(o, now, P) : o \in charmed }
         IN  { [o EXCEPT !.g = applyEvent(o.g, o.line, o.tone, prev)] : o \in done }

---------------------------------------------------------------------------
(* The pomodoro timer, src/src/components/PomodoroTimer.tsx.  A handler or  *)
(* the interval callback runs on the state of the last render and its state *)
(* updates are applied together.                                            *)

FOCUS_SECONDS == 25 * 60
BREAK_SECONDS == 5 * 60

(* 27-30 *)
InitialTimer ==
    [phase |-> "focus", secondsLeft |-> FOCUS_SECONDS, isRunning |-> FALSE,
     hasStartedPomodoro |-> FALSE]

(* 32 *)
canWriteInChat(t) == t.hasStartedPomodoro /\ t.phase = "break"

(* Faulty variant: the countdown goes on to 0 before the phase changes *)
intervalSecondToZero(t) ==
    IF t.secondsLeft > 0
    THEN [t EXCEPT !.secondsLeft = t.secondsLeft - 1]
    ELSE IF t.phase = "focus"
    THEN [t EXCEPT !.phase = "break", !.secondsLeft = BREAK_SECONDS]
    ELSE [t EXCEPT !.phase = "focus",
                   !.isRunning = FALSE,
                   !.hasStartedPomodoro = FALSE,
                   !.secondsLeft = FOCUS_SECONDS]

(* 47-63: the interval callback, set up only while isRunning *)
intervalSecond(t) ==
    IF t.secondsLeft > 1
    THEN [t EXCEPT !.secondsLeft = t.secondsLeft - 1]
    ELSE IF t.phase = "focus"
    THEN [t EXCEPT !.phase = "break", !.secondsLeft = BREAK_SECONDS]
    ELSE [t EXCEPT !.phase = "focus",
                   !.isRunning = FALSE,
                   !.hasStartedPomodoro = FALSE,
                   !.secondsLeft = FOCUS_SECONDS]

(* 68-73 *)
handleReset(t) ==
    [t EXCEPT !.isRunning = FALSE,
              !.phase = "focus",
              !.secondsLeft = FOCUS_SECONDS,
              !.hasStartedPomodoro = FALSE]

(* Faulty variant: starting does not record that the pomodoro was started *)
handleStartPauseForgets(t) == [t EXCEPT !.isRunning = ~t.isRunning]

(* 75-83 *)
handleStartPause(t) ==
    LET next == ~t.isRunning
    IN  IF next /\ ~t.hasStartedPomodoro
        THEN [t EXCEPT !.isRunning = next, !.hasStartedPomodoro = TRUE]
        ELSE [t EXCEPT !.isRunning = next]

---------------------------------------------------------------------------
(* Operations.  P is the profile of the specification:                       *)
(*   dts      the gaps between a tick's Date.now() and the last one          *)
(*   horizon  the last timestamp considered                                  *)
(*   idle     how long ticks go on while the overlay (ready, game over) waits *)
(*   dirs     the directions the keys and swipes request                     *)
(*   maxTurns how many requests may change the state                         *)
(*   cells    the random points randomCell may draw first                    *)
(*   types    the food types pickFoodType may draw                           *)
(*   spread   whether randomInt also yields its upper end                    *)
(*   lines    the indices randomFrom may draw in the line tables             *)
(*   items    what localStorage may hold when the component first mounts     *)

(* cays counts the cay eaten in a row: since the run began or another food was eaten *)
Event(op, kind, req, newHead, ate, ateNazar, cays, prev) ==
    [op |-> op, kind |-> kind, req |-> req, newHead |-> newHead, ate |-> ate,
     ateNazar |-> ateNazar, cays |-> cays, prev |-> prev]

CaysAfter(ate) == IF ate = "cay" THEN ev.cays + 1 ELSE IF ate # "" THEN 0 ELSE ev.cays

(* 468-470 and the first run of the storage effect (495-500) *)
Mount(P, now, item) ==
    \E g \in createInitialGame(now, readBestScoreFromStorage(item), P) :
        /\ game = g
        /\ stored = NumberToString(g.bestScore)
        /\ turns = 0
        /\ timer = InitialTimer
        /\ ev = Event("mount", "", NoPoint, NoPoint, "", FALSE, 0, g)

InitOf(P) == \E item \in P.items : Mount(P, MountMs, item)

(* setInterval(..., 60): one run of the callback, then the storage effect *)
TickOf(P) ==
    \E d \in P.dts :
        LET now == game.nowMs + d
        IN  /\ now <= P.horizon
            /\ game.phase # "running" => now - game.lastStepAt <= P.idle
            /\ \E o \in tick(game, now, P) :
                   /\ game' = o.g
                   /\ stored' = bestScoreEffect(game, o.g, stored)
                   /\ ev' = Event("tick", o.kind, NoPoint, o.newHead, o.ate, o.ateNazar,
                                CaysAfter(o.ate), game)
            /\ UNCHANGED <<turns, timer>>

(* 670-696, 952-972: a key or a swipe asks for a direction *)
QueueTurnOf(P) ==
    \E requested \in P.dirs :
        LET after == queueTurn(game, requested)
        IN  /\ after # game => turns < P.maxTurns
            /\ game' = after
            /\ turns' = IF after # game THEN turns + 1 ELSE turns
            /\ ev' = Event("queueTurn", "", requested, NoPoint, "", FALSE, ev.cays, game)
            /\ UNCHANGED <<stored, timer>>

(* 672-675, 1040-1051: Space or the overlay button, offered while not running *)
StartNewRunOf(P) ==
    /\ game.phase # "running"
    /\ \E g \in startNewRun(game, game.nowMs, P) :
           /\ game' = g
           /\ stored' = bestScoreEffect(game, g, stored)
           /\ ev' = Event("startNewRun", "", NoPoint, NoPoint, "", FALSE, 0, game)
    /\ UNCHANGED <<turns, timer>>

(* The page is loaded again: a new component reads the stored best score *)
RemountOf(P) ==
    /\ game.nowMs < P.horizon
    /\ \E g \in createInitialGame(game.nowMs + TICK_MS, readBestScoreFromStorage(stored), P) :
           /\ game' = g
           /\ stored' = NumberToString(g.bestScore)
           /\ ev' = Event("mount", "", NoPoint, NoPoint, "", FALSE, 0, game)
    /\ UNCHANGED <<turns, timer>>

---------------------------------------------------------------------------
(* Spec: the 60 ms cadence, free turning, food and restarts over a short horizon *)

MainProfile ==
    [dts |-> {TICK_MS},
     horizon |-> MountMs + MaxTicks * TICK_MS,
     idle |-> MaxIdleTicks * TICK_MS,
     dirs |-> Directions,
     maxTurns |-> MaxTurns,
     cells |-> {Point(9, 6), Point(10, 6)},
     types |-> {"doner", "cay", "raki"},
     spread |-> FALSE,
     lines |-> {1},
     items |-> {<<>>}]

Init == InitOf(MainProfile)

Tick == TickOf(MainProfile)

QueueTurn == QueueTurnOf(MainProfile)

StartNewRun == StartNewRunOf(MainProfile)

Next == Tick \/ QueueTurn \/ StartNewRun

Spec == Init /\ [][Next]_vars

---------------------------------------------------------------------------
(* SpecWrap: long enough runs to cross the grid, sober (the food out of the *)
(* way) or drunk (a raki right ahead), with at most MaxWrapTurns turns       *)

WrapProfile ==
    [dts |-> {TICK_MS},
     horizon |-> MountMs + MaxWrapTicks * TICK_MS,
     idle |-> 0,
     dirs |-> Directions,
     maxTurns |-> MaxWrapTurns,
     cells |-> {Point(9, 6), Point(10, 9)},
     types |-> {"raki"},
     spread |-> FALSE,
     lines |-> {1},
     items |-> {<<>>}]

InitWrap == InitOf(WrapProfile)

TickWrap == TickOf(WrapProfile)

QueueTurnWrap == QueueTurnOf(WrapProfile)

StartNewRunWrap == StartNewRunOf(WrapProfile)

NextWrap == TickWrap \/ QueueTurnWrap \/ StartNewRunWrap

SpecWrap == InitWrap /\ [][NextWrap]_vars

---------------------------------------------------------------------------
(* SpecTea: cay and doner laid out in the snake's row, long enough for the *)
(* forced break after the fifth cay to end; the player only asks for left  *)
(* and right, so the snake stays in its row                                *)

TeaProfile ==
    [dts |-> {TICK_MS},
     horizon |-> MountMs + MaxTeaTicks * TICK_MS,
     idle |-> 0,
     dirs |-> {DIRECTIONS.left, DIRECTIONS.right},
     maxTurns |-> MaxTurns,
     cells |-> {Point(8 + i, 6) : i \in 1..MaxTeaCells},
     types |-> {"cay", "doner"},
     spread |-> FALSE,
     lines |-> {1},
     items |-> {<<>>}]

InitTea == InitOf(TeaProfile)

TickTea == TickOf(TeaProfile)

QueueTurnTea == QueueTurnOf(TeaProfile)

StartNewRunTea == StartNewRunOf(TeaProfile)

NextTea == TickTea \/ QueueTurnTea \/ StartNewRunTea

SpecTea == InitTea /\ [][NextTea]_vars

---------------------------------------------------------------------------
(* SpecCharm: runs of more than ten seconds, in which lights come and go and *)
(* a charm appears, in the snake's row or off it; the snake stays in its row *)

CharmProfile ==
    [dts |-> {TICK_MS},
     horizon |-> MountMs + MaxCharmTicks * TICK_MS,
     idle |-> 0,
     dirs |-> {DIRECTIONS.left, DIRECTIONS.right},
     maxTurns |-> MaxTurns,
     cells |-> {Point(10, 9), Point(12, 6), Point(15, 6)},
     types |-> {"cay", "simit"},
     spread |-> TRUE,
     lines |-> {1},
     items |-> {<<>>}]

InitCharm == InitOf(CharmProfile)

TickCharm == TickOf(CharmProfile)

QueueTurnCharm == QueueTurnOf(CharmProfile)

StartNewRunCharm == StartNewRunOf(CharmProfile)

NextCharm == TickCharm \/ QueueTurnCharm \/ StartNewRunCharm

SpecCharm == InitCharm /\ [][NextCharm]_vars

---------------------------------------------------------------------------
(* SpecStore: short runs with food right ahead, page reloads, and a storage *)
(* that holds nothing, a number or something else at the first mount        *)

StoreProfile ==
    [dts |-> {TICK_MS},
     horizon |-> MountMs + MaxStoreTicks * TICK_MS,
     idle |-> MaxIdleTicks * TICK_MS,
     dirs |-> {DIRECTIONS.left, DIRECTIONS.right},
     maxTurns |-> MaxTurns,
     cells |-> {Point(9, 6), Point(10, 6)},
     types |-> {"doner", "cay"},
     spread |-> FALSE,
     lines |-> {1},
     items |-> {<<>>, <<"7">>, <<"0", "9">>, <<"-", "7">>, <<"x">>}]

InitStore == InitOf(StoreProfile)

TickStore == TickOf(StoreProfile)

QueueTurnStore == QueueTurnOf(StoreProfile)

StartNewRunStore == StartNewRunOf(StoreProfile)

RemountStore == RemountOf(StoreProfile)

NextStore == TickStore \/ QueueTurnStore \/ StartNewRunStore \/ RemountStore

SpecStore == InitStore /\ [][NextStore]_vars

---------------------------------------------------------------------------
(* SpecOver: short runs that can end, with ticks going on for as long as the *)
(* start or game-over overlay is shown, and restarts at any of those ticks   *)

OverProfile ==
    [dts |-> {TICK_MS},
     horizon |-> MountMs + MaxOverTicks * TICK_MS,
     idle |-> MaxOverTicks * TICK_MS,
     dirs |-> Directions,
     maxTurns |-> MaxTurns,
     cells |-> {Point(9, 6)},
     types |-> {"doner", "raki"},
     spread |-> TRUE,
     lines |-> {1, 4},
     items |-> {<<>>}]

InitOver == InitOf(OverProfile)

TickOver == TickOf(OverProfile)

QueueTurnOver == QueueTurnOf(OverProfile)

StartNewRunOver == StartNewRunOf(OverProfile)

NextOver == TickOver \/ QueueTurnOver \/ StartNewRunOver

SpecOver == InitOver /\ [][NextOver]_vars

---------------------------------------------------------------------------
(* SpecFood: the runs of SpecTea, and beside them short runs of a component *)
(* mounted half a tick period later in which every food type is drawn, two  *)
(* foods in a row right ahead of the snake                                  *)

MenuProfile ==
    [dts |-> {TICK_MS},
     horizon |-> MountMs + TICK_MS \div 2 + MaxMenuTicks * TICK_MS,
     idle |-> 0,
     dirs |-> {DIRECTIONS.left, DIRECTIONS.right},
     maxTurns |-> MaxTurns,
     cells |-> {Point(9, 6), Point(10, 6)},
     types |-> FoodTypes,
     spread |-> FALSE,
     lines |-> {1, 3},
     items |-> {<<>>}]

OnTeaClock == (game.nowMs - MountMs) % TICK_MS = 0

InitMenu == \E item \in MenuProfile.items : Mount(MenuProfile, MountMs + TICK_MS \div 2, item)

TickMenu == TickOf(MenuProfile)

QueueTurnMenu == QueueTurnOf(MenuProfile)

StartNewRunMenu == StartNewRunOf(MenuProfile)

InitFood == InitTea \/ InitMenu

NextFood ==
    \/ OnTeaClock /\ NextTea
    \/ ~OnTeaClock /\ (TickMenu \/ QueueTurnMenu \/ StartNewRunMenu)

SpecFood == InitFood /\ [][NextFood]_vars

---------------------------------------------------------------------------
(* SpecNazar: the runs of SpecCharm, and beside them runs of a component    *)
(* mounted half a tick period later in which only simit is drawn, on three  *)
(* cells of the snake's row, so that a simit is eaten right before a charm  *)

BoostProfile ==
    [dts |-> {TICK_MS},
     horizon |-> MountMs + TICK_MS \div 2 + MaxCharmTicks * TICK_MS,
     idle |-> 0,
     dirs |-> {DIRECTIONS.left, DIRECTIONS.right},
     maxTurns |-> MaxTurns,
     cells |-> {Point(3, 6), Point(5, 6), Point(14, 6)},
     types |-> {"simit"},
     spread |-> FALSE,
     lines |-> {1},
     items |-> {<<>>}]

OnCharmClock == (game.nowMs - MountMs) % TICK_MS = 0

InitBoost == \E item \in BoostProfile.items : Mount(BoostProfile, MountMs + TICK_MS \div 2, item)

TickBoost == TickOf(BoostProfile)

QueueTurnBoost == QueueTurnOf(BoostProfile)

StartNewRunBoost == StartNewRunOf(BoostProfile)

InitNazar == InitCharm \/ InitBoost

NextNazar ==
    \/ OnCharmClock /\ NextCharm
    \/ ~OnCharmClock /\ (TickBoost \/ QueueTurnBoost \/ StartNewRunBoost)

SpecNazar == InitNazar /\ [][NextNazar]_vars

---------------------------------------------------------------------------
(* SpecPause: the runs of SpecCharm, in which lights and charms come, and   *)
(* beside them runs of a component mounted half a tick period later that    *)
(* draws cay and doner in the snake's row as SpecTea does, long enough for  *)
(* the forced break after the fifth cay                                     *)

LateTeaProfile ==
    [TeaProfile EXCEPT !.horizon = MountMs + TICK_MS \div 2 + MaxTeaTicks * TICK_MS]

OnLightClock == (game.nowMs - MountMs) % TICK_MS = 0

InitLateTea == \E item \in LateTeaProfile.items : Mount(LateTeaProfile, MountMs + TICK_MS \div 2, item)

TickLateTea == TickOf(LateTeaProfile)

QueueTurnLateTea == QueueTurnOf(LateTeaProfile)

StartNewRunLateTea == StartNewRunOf(LateTeaProfile)

InitPause == InitCharm \/ InitLateTea

NextPause ==
    \/ OnLightClock /\ NextCharm
    \/ ~OnLightClock /\ (TickLateTea \/ QueueTurnLateTea \/ StartNewRunLateTea)

SpecPause == InitPause /\ [][NextPause]_vars

---------------------------------------------------------------------------
(* SpecLights: one long run in which the snake circles its row, a simit may *)
(* lie ahead in the row or the food off it, and a light comes, ends, and    *)
(* the next one comes; the random delays take either end of their range.    *)
(* ev.lightOff is the time at which the light last went back to none (-1    *)
(* before that), ev.stepAt the time of the last movement step of the run or, *)
(* before the first, of the run's start; ev.stepWas is ev.stepAt as it was   *)
(* before the last operation.  The operations below are those of TickOf,    *)
(* QueueTurnOf and StartNewRunOf with this record kept beside them.         *)

LightsProfile ==
    [dts |-> {TICK_MS},
     horizon |-> MountMs + MaxLightTicks * TICK_MS,
     idle |-> 0,
     dirs |-> {DIRECTIONS.left, DIRECTIONS.right},
     maxTurns |-> MaxTurns,
     cells |-> {Point(10, 9), Point(12, 6)},
     types |-> {"simit"},
     spread |-> TRUE,
     lines |-> {1},
     items |-> {<<>>}]

(* What the last operation accepted as a turn: the request of a queueTurn  *)
(* that came while the game was not over and was not the opposite of the   *)
(* current direction                                                       *)
Accepted(before, requested) ==
    IF before.phase # "game_over" /\ ~isOpposite(requested, before.direction)
    THEN <<requested>> ELSE <<>>

(* ev.asked holds the first and the last of the turn requests accepted since *)
(* the last movement step or run start (empty when there was none),          *)
(* ev.askedWas is ev.asked as it was before the last operation               *)
History(before, after, stepped, accepted) ==
    [lightOff |-> IF before.trafficState # "none" /\ after.trafficState = "none"
                  THEN after.nowMs ELSE ev.lightOff,
     stepAt |-> IF stepped THEN after.nowMs ELSE ev.stepAt,
     stepWas |-> ev.stepAt,
     asked |-> IF stepped THEN <<>>
               ELSE IF accepted = <<>> THEN ev.asked
               ELSE IF ev.asked = <<>> THEN accepted \o accepted
               ELSE <<ev.asked[1]>> \o accepted,
     askedWas |-> ev.asked]

InitLogOf(P) ==
    \E item \in P.items :
        \E g \in createInitialGame(MountMs, readBestScoreFromStorage(item), P) :
            /\ game = g
            /\ stored = NumberToString(g.bestScore)
            /\ turns = 0
            /\ timer = InitialTimer
            /\ ev = Event("mount", "", NoPoint, NoPoint, "", FALSE, 0, g)
                      @@ [lightOff |-> -1, stepAt |-> MountMs, stepWas |-> MountMs,
                          asked |-> <<>>, askedWas |-> <<>>]

TickLogOf(P) ==
    \E d \in P.dts :
        LET now == game.nowMs + d
        IN  /\ now <= P.horizon
            /\ game.phase # "running" => now - game.lastStepAt <= P.idle
            /\ \E o \in tick(game, now, P) :
                   /\ game' = o.g
                   /\ stored' = bestScoreEffect(game, o.g, stored)
                   /\ ev' = Event("tick", o.kind, NoPoint, o.newHead, o.ate, o.ateNazar,
                                CaysAfter(o.ate), game)
                              @@ History(game, o.g, o.kind = "moved", <<>>)
            /\ UNCHANGED <<turns, timer>>

QueueTurnLogOf(P) ==
    \E requested \in P.dirs :
        LET after == queueTurn(game, requested)
        IN  /\ after # game => turns < P.maxTurns
            /\ game' = after
            /\ turns' = IF after # game THEN turns + 1 ELSE turns
            /\ ev' = Event("queueTurn", "", requested, NoPoint, "", FALSE, ev.cays, game)
                       @@ History(game, after, FALSE, Accepted(game, requested))
            /\ UNCHANGED <<stored, timer>>

StartNewRunLogOf(P) ==
    /\ game.phase # "running"
    /\ \E g \in startNewRun(game, game.nowMs, P) :
           /\ game' = g
           /\ stored' = bestScoreEffect(game, g, stored)
           /\ ev' = Event("startNewRun", "", NoPoint, NoPoint, "", FALSE, 0, game)
                      @@ History(game, g, TRUE, <<>>)
    /\ UNCHANGED <<turns, timer>>

InitLights == InitLogOf(LightsProfile)

TickLights == TickLogOf(LightsProfile)

QueueTurnLights == QueueTurnLogOf(LightsProfile)

StartNewRunLights == StartNewRunLogOf(LightsProfile)

NextLights == TickLights \/ QueueTurnLights \/ StartNewRunLights

SpecLights == InitLights /\ [][NextLights]_vars

---------------------------------------------------------------------------
(* SpecSpeed: getSpeedMs on its own.  The state is a running game whose two *)
(* speed deadlines, light and light window are drawn around the timestamps  *)
(* asked for; ev.now and ev.speed are the last call's argument and result.  *)

SpeedTimes == {MountMs + k * TICK_MS : k \in 0..MaxSpeedTicks}

SpeedStates ==
    { [g EXCEPT !.phase = "running",
                !.speedBoostUntil = b,
                !.slowUntil = s,
                !.trafficState = t,
                !.trafficUntil = IF t = "none" THEN 0 ELSE u] :
      g \in createInitialGame(MountMs, 0, MainProfile),
      b \in {0} \cup SpeedTimes, s \in {0} \cup SpeedTimes,
      t \in {"none", "red", "green"}, u \in SpeedTimes }

InitSpeed ==
    \E g \in SpeedStates :
        /\ game = g
        /\ stored = NumberToString(g.bestScore)
        /\ turns = 0
        /\ timer = InitialTimer
        /\ ev = Event("mount", "", NoPoint, NoPoint, "", FALSE, 0, g)
                  @@ [now |-> MountMs, speed |-> 0]

GetSpeedMs ==
    \E now \in SpeedTimes :
        /\ ev' = Event("getSpeedMs", "", NoPoint, NoPoint, "", FALSE, 0, game)
                   @@ [now |-> now, speed |-> getSpeedMs(game, now)]
        /\ UNCHANGED <<game, stored, turns, timer>>

NextSpeed == GetSpeedMs

SpecSpeed == InitSpeed /\ [][NextSpeed]_vars

---------------------------------------------------------------------------
(* SpecTurns: the runs of Spec with the record of SpecLights kept beside   *)
(* them: free turning, several requests between two steps                  *)

InitTurns == InitLogOf(MainProfile)

TickTurns == TickLogOf(MainProfile)

QueueTurnTurns == QueueTurnLogOf(MainProfile)

StartNewRunTurns == StartNewRunLogOf(MainProfile)

NextTurns == TickTurns \/ QueueTurnTurns \/ StartNewRunTurns

SpecTurns == InitTurns /\ [][NextTurns]_vars

---------------------------------------------------------------------------
(* SpecEvents: a run in which a light comes due while the snake eats, takes *)
(* a charm or bites itself.  Init is a run started at the mount in which no *)
(* key was pressed and the food lay off the snake's row: after three laps   *)
(* of the row (60 steps, one every third tick) the snake is where it began, *)
(* the first light is due within the next ticks and the first charm has     *)
(* either appeared (in the tick at 10020 ms) or not.                        *)

RunMs == 3 * GRID_COLS * 3 * TICK_MS

EventsProfile ==
    [dts |-> {TICK_MS},
     horizon |-> MountMs + RunMs + MaxEventTicks * TICK_MS,
     idle |-> MaxIdleTicks * TICK_MS,
     dirs |-> Directions,
     maxTurns |-> MaxTurns,
     cells |-> {Point(8, 7), Point(8, 5)},
     types |-> {"doner"},
     spread |-> FALSE,
     lines |-> {1},
     items |-> {<<>>}]

InitEvents ==
    \E g0 \in createInitialGame(MountMs, 0, EventsProfile) :
        \E fresh \in startNewRun(g0, MountMs, EventsProfile),
           due \in 1..MaxEventTicks, charm \in BOOLEAN, c \in EventsProfile.cells :
            LET now == MountMs + RunMs
                spawnedAt == MountMs + (FIRST_NAZAR_MIN_MS \div TICK_MS + 1) * TICK_MS
                g == [fresh EXCEPT !.nowMs = now,
                                   !.lastStepAt = now,
                                   !.eventTone = NoTone,
                                   !.nextTrafficAt = now + due * TICK_MS,
                                   !.nazar = IF charm THEN <<c>> ELSE NoNazar,
                                   !.nextNazarAt = IF charm THEN spawnedAt + NAZAR_MIN_MS
                                                   ELSE MountMs + FIRST_NAZAR_MAX_MS]
            IN  /\ charm => c # Point(fresh.food.x, fresh.food.y)
                /\ game = g
                /\ stored = NumberToString(g.bestScore)
                /\ turns = 0
                /\ timer = InitialTimer
                /\ ev = Event("tick", "gated", NoPoint, NoPoint, "", FALSE, 0, g)

TickEvents == TickOf(EventsProfile)

QueueTurnEvents == QueueTurnOf(EventsProfile)

StartNewRunEvents == StartNewRunOf(EventsProfile)

NextEvents == TickEvents \/ QueueTurnEvents \/ StartNewRunEvents

SpecEvents == InitEvents /\ [][NextEvents]_vars

---------------------------------------------------------------------------
(* SpecLag: the interval callback comes late: the gap between two ticks is *)
(* one tick period or MaxLagTicks of them (a throttled or stalled page),   *)
(* over twice the longest gap                                              *)

LagProfile ==
    [dts |-> {TICK_MS, MaxLagTicks * TICK_MS},
     horizon |-> MountMs + 2 * MaxLagTicks * TICK_MS,
     idle |-> 0,
     dirs |-> Directions,
     maxTurns |-> MaxWrapTurns,
     cells |-> {Point(9, 6), Point(11, 6)},
     types |-> {"doner", "raki"},
     spread |-> FALSE,
     lines |-> {1},
     items |-> {<<>>}]

InitLag == InitOf(LagProfile)

TickLag == TickOf(LagProfile)

QueueTurnLag == QueueTurnOf(LagProfile)

StartNewRunLag == StartNewRunOf(LagProfile)

NextLag == TickLag \/ QueueTurnLag \/ StartNewRunLag

SpecLag == InitLag /\ [][NextLag]_vars

---------------------------------------------------------------------------
(* SpecLive: a run in which a forced tea break and a red light follow one   *)
(* another, under a timer that keeps firing (weak fairness of the tick).    *)
(* Init is a run started at the mount in which no key was pressed, the food *)
(* lay in the column of the snake's head and the first light was drawn      *)
(* as late as it can be: after three laps of the row the snake is where it  *)
(* began, and the first charm has appeared (in the tick at 11020 ms) in the *)
(* grid's corner.  The player may turn down once, into the column of the    *)
(* food.                                                                    *)

LiveProfile ==
    [dts |-> {TICK_MS},
     horizon |-> MountMs + RunMs + MaxLiveTicks * TICK_MS,
     idle |-> 0,
     dirs |-> {DIRECTIONS.down},
     maxTurns |-> MaxWrapTurns,
     cells |-> {Point(8, (6 + i) % GRID_ROWS) : i \in 1..MaxLiveCells},
     types |-> {"cay"},
     spread |-> FALSE,
     lines |-> {1},
     items |-> {<<>>}]

InitLive ==
    \E g0 \in createInitialGame(MountMs, 0, LiveProfile) :
        \E fresh \in startNewRun(g0, MountMs, LiveProfile) :
            LET now == MountMs + RunMs
                spawnedAt == MountMs + (FIRST_NAZAR_MIN_MS \div TICK_MS + 1) * TICK_MS
                g == [fresh EXCEPT !.nowMs = now,
                                   !.lastStepAt = now,
                                   !.eventTone = NoTone,
                                   !.nextTrafficAt = MountMs + FIRST_TRAFFIC_MAX_MS,
                                   !.nazar = <<Point(0, 0)>>,
                                   !.nextNazarAt = spawnedAt + NAZAR_MIN_MS]
            IN  /\ game = g
                /\ stored = NumberToString(g.bestScore)
                /\ turns = 0
                /\ timer = InitialTimer
                /\ ev = Event("tick", "gated", NoPoint, NoPoint, "", FALSE, 0, g)

TickLive == TickOf(LiveProfile)

QueueTurnLive == QueueTurnOf(LiveProfile)

StartNewRunLive == StartNewRunOf(LiveProfile)

NextLive == TickLive \/ QueueTurnLive \/ StartNewRunLive

SpecLive == InitLive /\ [][NextLive]_vars /\ WF_vars(TickLive)

---------------------------------------------------------------------------
(* SpecMods: short runs with free turning in which a simit, a cay, a baklava *)
(* or a raki lies on the two cells ahead, long enough to eat both, bite the  *)
(* tail and start again; beside them the runs of the component mounted half  *)
(* a tick period later that draws cay and doner in its row (SpecPause)       *)

ModsProfile ==
    [dts |-> {TICK_MS},
     horizon |-> MountMs + MaxModsTicks * TICK_MS,
     idle |-> 0,
     dirs |-> Directions,
     maxTurns |-> MaxTurns,
     cells |-> {Point(9, 6), Point(10, 6)},
     types |-> {"simit", "cay", "baklava", "raki"},
     spread |-> FALSE,
     lines |-> {1},
     items |-> {<<>>}]

InitSober == InitOf(ModsProfile)

TickMods == TickOf(ModsProfile)

QueueTurnMods == QueueTurnOf(ModsProfile)

StartNewRunMods == StartNewRunOf(ModsProfile)

InitMods == InitSober \/ InitLateTea

NextMods ==
    \/ OnLightClock /\ (TickMods \/ QueueTurnMods \/ StartNewRunMods)
    \/ ~OnLightClock /\ (TickLateTea \/ QueueTurnLateTea \/ StartNewRunLateTea)

SpecMods == InitMods /\ [][NextMods]_vars

---------------------------------------------------------------------------
(* SpecKeep: one run of more than twenty-two seconds in which the snake     *)
(* circles its row; the first charm appears in the row, where it is taken,  *)
(* or off it, where it lies until the next charm is due and after           *)

KeepProfile ==
    [LightsProfile EXCEPT !.horizon = MountMs + MaxKeepTicks * TICK_MS, !.spread = FALSE]

InitKeep == InitOf(KeepProfile)

TickKeep == TickOf(KeepProfile)

QueueTurnKeep == QueueTurnOf(KeepProfile)

StartNewRunKeep == StartNewRunOf(KeepProfile)

NextKeep == TickKeep \/ QueueTurnKeep \/ StartNewRunKeep

SpecKeep == InitKeep /\ [][NextKeep]_vars

---------------------------------------------------------------------------
(* SpecRest: the runs of SpecOver (a run ends and the overlay waits) with   *)
(* the record of accepted turns of SpecTurns kept beside them               *)

InitRest == InitLogOf(OverProfile)

TickRest == TickLogOf(OverProfile)

QueueTurnRest == QueueTurnLogOf(OverProfile)

StartNewRunRest == StartNewRunLogOf(OverProfile)

NextRest == TickRest \/ QueueTurnRest \/ StartNewRunRest

SpecRest == InitRest /\ [][NextRest]_vars

---------------------------------------------------------------------------
(* SpecTabs: two instances of the component (two tabs of one browser) over  *)
(* the one localStorage.  Here game is the pair of their states, stored the *)
(* item under the best-score key; each tab has its own interval and its own *)
(* keys, and the operations of the two interleave in any order.  The second *)
(* tab mounts after the first.  ev.tab is the tab of the last operation,    *)
(* ev.storedWas the item before it.                                         *)

TabsProfile ==
    [dts |-> {TICK_MS},
     horizon |-> MountMs + MaxTabTicks * TICK_MS,
     idle |-> 0,
     dirs |-> {DIRECTIONS.right, DIRECTIONS.up},
     maxTurns |-> MaxWrapTurns,
     cells |-> {Point(9, 6)},
     types |-> {"doner", "cay"},
     spread |-> FALSE,
     lines |-> {1},
     items |-> {<<>>, <<"7">>}]

Tabs == {1, 2}

TabEvent(op, tab, prev, storedWas) ==
    [op |-> op, tab |-> tab, prev |-> prev, storedWas |-> storedWas]

InitTabs ==
    \E item \in TabsProfile.items :
        \E g1 \in createInitialGame(MountMs, readBestScoreFromStorage(item), TabsProfile) :
            LET first == NumberToString(g1.bestScore)
            IN  \E g2 \in createInitialGame(MountMs, readBestScoreFromStorage(first),
                                            TabsProfile) :
                    /\ game = <<g1, g2>>
                    /\ stored = NumberToString(g2.bestScore)
                    /\ turns = 0
                    /\ timer = InitialTimer
                    /\ ev = TabEvent("mount", 2, <<g1, g2>>, first)

TickTabs ==
    \E i \in Tabs, d \in TabsProfile.dts :
        LET now == game[i].nowMs + d
        IN  /\ now <= TabsProfile.horizon
            /\ game[i].phase # "running" => now - game[i].lastStepAt <= TabsProfile.idle
            /\ \E o \in tick(game[i], now, TabsProfile) :
                   /\ game' = [game EXCEPT ![i] = o.g]
                   /\ stored' = bestScoreEffect(game[i], o.g, stored)
                   /\ ev' = TabEvent("tick", i, game, stored)
            /\ UNCHANGED <<turns, timer>>

QueueTurnTabs ==
    \E i \in Tabs, requested \in TabsProfile.dirs :
        LET after == queueTurn(game[i], requested)
        IN  /\ after # game[i] => turns < TabsProfile.maxTurns
            /\ game' = [game EXCEPT ![i] = after]
            /\ turns' = IF after # game[i] THEN turns + 1 ELSE turns
            /\ ev' = TabEvent("queueTurn", i, game, stored)
            /\ UNCHANGED <<stored, timer>>

StartNewRunTabs ==
    \E i \in Tabs :
        /\ game[i].phase # "running"
        /\ \E g \in startNewRun(game[i], game[i].nowMs, TabsProfile) :
               /\ game' = [game EXCEPT ![i] = g]
               /\ stored' = bestScoreEffect(game[i], g, stored)
               /\ ev' = TabEvent("startNewRun", i, game, stored)
        /\ UNCHANGED <<turns, timer>>

NextTabs == TickTabs \/ QueueTurnTabs \/ StartNewRunTabs

SpecTabs == InitTabs /\ [][NextTabs]_vars

---------------------------------------------------------------------------
(* SpecSound: two executions of the component side by side.  Both get the   *)
(* same operations at the same timestamps; the profile leaves the random    *)
(* draws no choice, so both draw the same.  In the first (game) every tone  *)
(* plays; in the second (ev.twin) the audio context fails whenever a tone   *)
(* is due.  ev.twinMounted tells whether the second component still runs:   *)
(* an error that leaves an effect takes the component down.                 *)

(* Faulty variant: the failure is not caught *)
playToneUncaught(tone, works) ==
    IF tone = NoTone THEN "skipped"
    ELSE IF works THEN "played" ELSE "thrown"

(* 588-631: playTone, its try block and its empty catch *)
playTone(tone, works) ==
    IF tone = NoTone THEN "skipped"
    ELSE IF works THEN "played" ELSE "caught"

(* 633-638: the effect on [game.eventId, game.eventTone] *)
toneEffect(before, after, works) ==
    IF after.eventId = before.eventId /\ after.eventTone = before.eventTone THEN "skipped"
    ELSE IF after.eventId = 0 THEN "skipped"
    ELSE playTone(after.eventTone, works)

SoundProfile ==
    [dts |-> {TICK_MS},
     horizon |-> MountMs + MaxSoundTicks * TICK_MS,
     idle |-> MaxIdleTicks * TICK_MS,
     dirs |-> Directions,
     maxTurns |-> MaxTurns,
     cells |-> {Point(9, 6)},
     types |-> {"doner"},
     spread |-> FALSE,
     lines |-> {1},
     items |-> {<<>>}]

Twin(g, mounted, heard, twinHeard) ==
    [twin |-> g, twinMounted |-> mounted, heard |-> heard, twinHeard |-> twinHeard]

(* the second execution after an operation that takes a mounted component from *)
(* ev.twin to after                                                            *)
TwinAfter(after, heard) ==
    IF ev.twinMounted
    THEN Twin(after, toneEffect(ev.twin, after, FALSE) # "thrown", heard,
              toneEffect(ev.twin, after, FALSE))
    ELSE Twin(ev.twin, FALSE, heard, "skipped")

InitSound ==
    \E g \in createInitialGame(MountMs, readBestScoreFromStorage(<<>>), SoundProfile) :
        /\ game = g
        /\ stored = NumberToString(g.bestScore)
        /\ turns = 0
        /\ timer = InitialTimer
        /\ ev = Event("mount", "", NoPoint, NoPoint, "", FALSE, 0, g)
                  @@ Twin(g, TRUE, "skipped", "skipped")

TickSound ==
    \E d \in SoundProfile.dts :
        LET now == game.nowMs + d
        IN  /\ now <= SoundProfile.horizon
            /\ game.phase # "running" => now - game.lastStepAt <= SoundProfile.idle
            /\ \E o \in tick(game, now, SoundProfile), o2 \in tick(ev.twin, now, SoundProfile) :
                   /\ game' = o.g
                   /\ stored' = bestScoreEffect(game, o.g, stored)
                   /\ ev' = Event("tick", o.kind, NoPoint, o.newHead, o.ate, o.ateNazar,
                                CaysAfter(o.ate), game)
                              @@ TwinAfter(o2.g, toneEffect(game, o.g, TRUE))
            /\ UNCHANGED <<turns, timer>>

QueueTurnSound ==
    \E requested \in SoundProfile.dirs :
        LET after == queueTurn(game, requested)
            after2 == queueTurn(ev.twin, requested)
        IN  /\ after # game => turns < SoundProfile.maxTurns
            /\ game' = after
            /\ turns' = IF after # game THEN turns + 1 ELSE turns
            /\ ev' = Event("queueTurn", "", requested, NoPoint, "", FALSE, ev.cays, game)
                       @@ TwinAfter(after2, toneEffect(game, after, TRUE))
            /\ UNCHANGED <<stored, timer>>

StartNewRunSound ==
    /\ game.phase # "running"
    /\ \E g \in startNewRun(game, game.nowMs, SoundProfile),
          g2 \in startNewRun(ev.twin, game.nowMs, SoundProfile) :
           /\ game' = g
           /\ stored' = bestScoreEffect(game, g, stored)
           /\ ev' = Event("startNewRun", "", NoPoint, NoPoint, "", FALSE, 0, game)
                      @@ TwinAfter(g2, toneEffect(game, g, TRUE))
    /\ UNCHANGED <<turns, timer>>

NextSound == TickSound \/ QueueTurnSound \/ StartNewRunSound

SpecSound == InitSound /\ [][NextSound]_vars

---------------------------------------------------------------------------
(* SpecFull: the end of a long run.  The boustrophedon path through the rows *)
(* (row 0 rightwards, row 1 leftwards, ..., row 11 leftwards, and from       *)
(* (0,11) down over the edge back to (0,0)) is a cycle of the torus through  *)
(* all 240 cells.  A snake that keeps to it and eats what appears ahead      *)
(* (kahve here: growth 1, no modifier) grows until it fills the grid.  Init  *)
(* is such a run when the snake, its tail at (0,0), has 238 or 239 cells.    *)

SerpentineCell(i) ==
    LET row == (i - 1) \div GRID_COLS
        off == (i - 1) % GRID_COLS
    IN  Point(IF row % 2 = 0 THEN off ELSE GRID_COLS - 1 - off, row)

SerpentineSnake(len) == [j \in 1..len |-> SerpentineCell(len + 1 - j)]

FullProfile ==
    [dts |-> {TICK_MS},
     horizon |-> MountMs + LateMs + MaxFullTicks * TICK_MS,
     idle |-> MaxIdleTicks * TICK_MS,
     dirs |-> Directions,
     maxTurns |-> MaxTurns,
     cells |-> {Point(0, 11), Point(1, 11)},
     types |-> {"kahve", "doner"},
     spread |-> FALSE,
     lines |-> {1},
     items |-> {<<>>}]

InitFull ==
    \E len \in {GRID_COLS * GRID_ROWS - 2, GRID_COLS * GRID_ROWS - 1},
       c \in FullProfile.cells, t \in pickFoodType(FullProfile),
       charmDue \in BOOLEAN :
        LET now == MountMs + LateMs
            snake == SerpentineSnake(len)
            fresh == CHOOSE g \in createInitialGame(now, 10 * (len - 4), FullProfile) : TRUE
            g == [fresh EXCEPT !.phase = "running",
                               !.snake = snake,
                               !.direction = DIRECTIONS.left,
                               !.pendingDirection = DIRECTIONS.left,
                               !.food = [x |-> c.x, y |-> c.y, type |-> t],
                               !.score = 10 * (len - 4),
                               !.nextNazarAt = IF charmDue THEN now + TICK_MS
                                               ELSE now + NAZAR_MIN_MS,
                               !.voiceLine = FORTUNE_LINES[1],
                               !.eventId = len - 3]
        IN  /\ c \notin SeqToSet(snake)
            /\ game = g
            /\ stored = NumberToString(g.bestScore)
            /\ turns = 0
            /\ timer = InitialTimer
            /\ ev = Event("tick", "gated", NoPoint, NoPoint, "", FALSE, 0, g)

TickFull == TickOf(FullProfile)

QueueTurnFull == QueueTurnOf(FullProfile)

StartNewRunFull == StartNewRunOf(FullProfile)

NextFull == TickFull \/ QueueTurnFull \/ StartNewRunFull

SpecFull == InitFull /\ [][NextFull]_vars

---------------------------------------------------------------------------
(* The operations of the bounded variant, and SpecVariants: a component of *)
(* either variant is mounted and then runs by its own operations           *)

InitBoundedOf(P) ==
    \E g \in createInitialGameBounded(MountMs, readBestScoreFromStorage(<<>>), P) :
        /\ game = g
        /\ stored = NumberToString(g.bestScore)
        /\ turns = 0
        /\ timer = InitialTimer
        /\ ev = Event("mount", "", NoPoint, NoPoint, "", FALSE, 0, g)

TickBoundedOf(P) ==
    \E d \in P.dts :
        LET now == game.nowMs + d
        IN  /\ now <= P.horizon
            /\ game.phase # "running" => now - game.lastStepAt <= P.idle
            /\ \E o \in tickBounded(game, now, P) :
                   /\ game' = o.g
                   /\ stored' = bestScoreEffect(game, o.g, stored)
                   /\ ev' = Event("tick", o.kind, NoPoint, o.newHead, o.ate, o.ateNazar,
                                CaysAfter(o.ate), game)
            /\ UNCHANGED <<turns, timer>>

(* the key is pressed at the last tick's timestamp or half a period later *)
QueueTurnBoundedOf(P) ==
    \E requested \in P.dirs, late \in {0, TICK_MS \div 2} :
        LET after == queueTurnBounded(game, requested, game.nowMs + late)
        IN  /\ after # game => turns < P.maxTurns
            /\ game' = after
            /\ turns' = IF after # game THEN turns + 1 ELSE turns
            /\ ev' = Event("queueTurn", "", requested, NoPoint, "", FALSE, ev.cays, game)
            /\ UNCHANGED <<stored, timer>>

StartNewRunBoundedOf(P) ==
    /\ game.phase # "running"
    /\ \E g \in startNewRunBounded(game, game.nowMs, P) :
           /\ game' = g
           /\ stored' = bestScoreEffect(game, g, stored)
           /\ ev' = Event("startNewRun", "", NoPoint, NoPoint, "", FALSE, 0, game)
    /\ UNCHANGED <<turns, timer>>

BoundedProfile ==
    [dts |-> {TICK_MS},
     horizon |-> MountMs + MaxBoundedTicks * TICK_MS,
     idle |-> MaxBoundedTicks * TICK_MS,
     dirs |-> Directions,
     maxTurns |-> MaxBoundedTurns,
     cells |-> {Point(11, 10)},
     types |-> {"doner", "ayran"},
     spread |-> FALSE,
     lines |-> {1},
     items |-> {<<>>}]

InitBounded == InitBoundedOf(BoundedProfile)

TickBounded == TickBoundedOf(BoundedProfile)

QueueTurnBounded == QueueTurnBoundedOf(BoundedProfile)

StartNewRunBounded == StartNewRunBoundedOf(BoundedProfile)

NextBounded == TickBounded \/ QueueTurnBounded \/ StartNewRunBounded

IsBounded == "reverseUntil" \in DOMAIN game

InitVariants == InitOver \/ InitBounded

NextVariants == (~IsBounded /\ NextOver) \/ (IsBounded /\ NextBounded)

SpecVariants == InitVariants /\ [][NextVariants]_vars

---------------------------------------------------------------------------
(* SpecPomodoro: the pomodoro timer with its real durations; the game beside *)
(* it is mounted and left alone.  Here ev records the timer's last operation: *)
(* focusTicks counts the interval callbacks since the phase last became      *)
(* focus, startedSince tells whether Start was pressed since then.           *)

TimerEvent(op, prev, focusTicks, startedSince) ==
    [op |-> op, prev |-> prev, focusTicks |-> focusTicks, startedSince |-> startedSince]

InitPomodoro ==
    /\ \E g \in createInitialGame(MountMs, readBestScoreFromStorage(<<>>), SoundProfile) :
           /\ game = g
           /\ stored = NumberToString(g.bestScore)
    /\ turns = 0
    /\ timer = InitialTimer
    /\ ev = TimerEvent("mount", InitialTimer, 0, FALSE)

IntervalSecond ==
    /\ timer.isRunning
    /\ timer' = intervalSecond(timer)
    /\ ev' = IF timer'.phase = "focus" /\ timer.phase = "break"
             THEN TimerEvent("second", timer, 0, FALSE)
             ELSE TimerEvent("second", timer,
                             IF timer.phase = "focus" THEN ev.focusTicks + 1 ELSE ev.focusTicks,
                             ev.startedSince)
    /\ UNCHANGED <<game, stored, turns>>

HandleStartPause ==
    /\ timer' = handleStartPause(timer)
    /\ ev' = TimerEvent("startPause", timer, ev.focusTicks, ev.startedSince \/ ~timer.isRunning)
    /\ UNCHANGED <<game, stored, turns>>

HandleReset ==
    /\ timer' = handleReset(timer)
    /\ ev' = TimerEvent("reset", timer, 0, FALSE)
    /\ UNCHANGED <<game, stored, turns>>

NextPomodoro == IntervalSecond \/ HandleStartPause \/ HandleReset

SpecPomodoro == InitPomodoro /\ [][NextPomodoro]_vars

---------------------------------------------------------------------------
(* Properties.  ev.prev is the state the last operation started from. *)

Stepped == ev.op = "tick" /\ ev.kind \in {"moved", "dead"}
Moved == ev.op = "tick" /\ ev.kind = "moved"
Died == ev.op = "tick" /\ ev.kind = "dead"

FoodCell(g) == Point(g.food.x, g.food.y)

Deadlines(g) == <<g.speedBoostUntil, g.slowUntil, g.freezeUntil, g.drunkUntil>>

InGrid(p) == p.x >= 0 /\ p.x < GRID_COLS /\ p.y >= 0 /\ p.y < GRID_ROWS

(* The cell one step from p along d on the torus, by the mathematical modulus *)
TorusStep(p, d) == Point((p.x + d.x) % GRID_COLS, (p.y + d.y) % GRID_ROWS)

Sideways(d) == IF d.x # 0 THEN {Point(0, -1), Point(0, 1)} ELSE {Point(-1, 0), Point(1, 0)}

(* C1: every snake segment lies in the 20 x 12 grid; the head of a movement  *)
(* step is the cell one step along the travel direction on the torus (then,  *)
(* when drunk, one more step sideways on the torus), so a step off an edge   *)
(* lands on the opposite edge; and a step whose new head is on no segment    *)
(* leaves the run running, whether or not it crossed an edge.                *)
C1_Wraparound ==
    /\ \A i \in 1..Len(game.snake) : InGrid(game.snake[i])
    /\ Stepped =>
           LET head == ev.prev.snake[1]
               d == ev.prev.pendingDirection
               fwd == TorusStep(head, d)
           IN  /\ InGrid(ev.newHead)
               /\ IF game.nowMs < ev.prev.drunkUntil
                  THEN \E side \in Sideways(d) : ev.newHead = TorusStep(fwd, side)
                  ELSE ev.newHead = fwd
               /\ ev.newHead \notin SeqToSet(ev.prev.snake) =>
                      game.phase = "running" /\ game.snake[1] = ev.newHead

C1_Witness ==
    /\ Moved
    /\ Len(ev.prev.snake) = 4
    /\ ev.prev.snake[1] = Point(19, 6)
    /\ ev.prev.pendingDirection = DIRECTIONS.right
    /\ game.snake[1] = Point(0, 6)
    /\ game.phase = "running"

(* A drunk step that crosses the bottom edge sideways *)
C1_WitnessDrunk ==
    /\ Moved
    /\ game.nowMs < ev.prev.drunkUntil
    /\ ev.prev.snake[1].y = GRID_ROWS - 1
    /\ game.snake[1].y = 0
    /\ ev.prev.pendingDirection = DIRECTIONS.right

(* C2: a movement step whose new head is on a segment of the current snake, *)
(* the tail included, ends the run: the phase is game over, bestScore is    *)
(* max(bestScore, score), and snake, score, food, teaStreak and the         *)
(* modifier deadlines are as before; a charm that was there is still there. *)
C2_SelfCollisionTerminal ==
    (Stepped /\ ev.newHead \in SeqToSet(ev.prev.snake)) =>
        /\ game.phase = "game_over"
        /\ game.bestScore = Max(ev.prev.bestScore, ev.prev.score)
        /\ game.snake = ev.prev.snake
        /\ game.score = ev.prev.score
        /\ game.food = ev.prev.food
        /\ game.teaStreak = ev.prev.teaStreak
        /\ Deadlines(game) = Deadlines(ev.prev)
        /\ ev.prev.nazar # NoNazar => game.nazar = ev.prev.nazar
        /\ ev.ate = "" /\ ~ev.ateNazar

C2_Witness ==
    /\ Died
    /\ ev.newHead = ev.prev.snake[Len(ev.prev.snake)]
    /\ game.phase = "game_over"

(* C3: while running the score never decreases over a tick; after every tick *)
(* bestScore is max(bestScore before, score after); bestScore >= score.      *)
C3_ScoreMonotone ==
    /\ game.bestScore >= game.score
    /\ ev.op = "tick" =>
           /\ ev.prev.phase = "running" => game.score >= ev.prev.score
           /\ game.bestScore = Max(ev.prev.bestScore, game.score)

C3_Witness ==
    /\ Moved
    /\ game.score > ev.prev.score
    /\ game.bestScore > ev.prev.bestScore
    /\ ev.prev.bestScore > 0

(* C5: queueTurn with the exact opposite of the current direction leaves the *)
(* whole state, pendingDirection included, as it was.                        *)
C5_NoReversal ==
    (ev.op = "queueTurn" /\ isOpposite(ev.req, ev.prev.direction)) => game = ev.prev

C5_Witness ==
    /\ ev.op = "queueTurn"
    /\ isOpposite(ev.req, ev.prev.direction)
    /\ ev.prev.phase = "running"
    /\ ev.prev.pendingDirection # ev.prev.direction

(* C6 as stated: the step that eats a doner leaves the snake exactly one *)
(* longer than a step that eats nothing, which keeps the length.         *)
C6_Original ==
    (Moved /\ ev.ate = "doner") => Len(game.snake) = Len(ev.prev.snake) + 1

(* C6 amended: the step that eats a doner (growth 2) leaves the snake exactly *)
(* two longer than a step that eats nothing, which keeps the length.          *)
C6_DonerGrowth ==
    /\ (Moved /\ ev.ate = "doner") => Len(game.snake) = Len(ev.prev.snake) + 2
    /\ (Moved /\ ev.ate = "") => Len(game.snake) = Len(ev.prev.snake)

C6_Witness == Moved /\ ev.ate = "doner" /\ Len(ev.prev.snake) > 4

C7_Scenario ==
    /\ Stepped
    /\ ev.prev.phase = "running"
    /\ ev.prev.snake = INITIAL_SNAKE
    /\ ev.prev.direction = DIRECTIONS.right
    /\ ev.prev.pendingDirection = DIRECTIONS.right
    /\ ev.prev.food = [x |-> 9, y |-> 6, type |-> "doner"]
    /\ ev.prev.nazar = NoNazar

(* C7 as stated: from snake (8,6),(7,6),(6,6),(5,6) heading right with a doner *)
(* at (9,6), one step gives score + 12, the 5-element snake                    *)
(* (9,6),(8,6),(7,6),(6,6),(5,6) and a new food off the snake.                 *)
C7_Original ==
    C7_Scenario =>
        /\ game.score = ev.prev.score + 12
        /\ game.snake = <<Point(9, 6), Point(8, 6), Point(7, 6), Point(6, 6), Point(5, 6)>>
        /\ FoodCell(game) \notin SeqToSet(game.snake)

(* C7 amended: that step gives score + 12, the 6-element snake                *)
(* (9,6),(8,6),(7,6),(6,6),(5,6),(5,6) (the old tail cell twice) and a new    *)
(* food on a cell that is not in the snake.                                   *)
C7_DonerScenario ==
    C7_Scenario =>
        /\ game.score = ev.prev.score + 12
        /\ game.snake = <<Point(9, 6), Point(8, 6), Point(7, 6), Point(6, 6), Point(5, 6),
                          Point(5, 6)>>
        /\ FoodCell(game) \notin SeqToSet(game.snake)

C7_Witness == C7_Scenario /\ Moved /\ ev.ate = "doner"

(* C8 as stated: the snake is never empty and no two of its entries are the *)
(* same cell.                                                               *)
C8_Original ==
    /\ Len(game.snake) >= 1
    /\ \A i, j \in 1..Len(game.snake) : i # j => game.snake[i] # game.snake[j]

(* C8 amended: the snake is never empty, and two entries are the same cell   *)
(* only in the run of copies of the tail cell that growth leaves at the end: *)
(* every entry from the first of two equal entries on is that same cell.     *)
C8_SnakeDistinctButTail ==
    /\ Len(game.snake) >= 1
    /\ \A i, j \in 1..Len(game.snake) :
           (i < j /\ game.snake[i] = game.snake[j]) =>
               \A k \in i..Len(game.snake) : game.snake[k] = game.snake[i]

C8_Witness ==
    /\ Len(game.snake) >= 6
    /\ game.snake[Len(game.snake)] = game.snake[Len(game.snake) - 1]
    /\ game.phase = "running"


(* C9: the step that eats the fifth cay in a row sets freezeUntil = now + 3000, *)
(* puts teaStreak back to 0 and emits the danger flavor; the first four leave  *)
(* the freeze alone and emit the boost flavor; a sixth cay in a row leaves      *)
(* teaStreak = 1 and sets no new freeze; any other food puts teaStreak to 0.   *)
C9_TeaStreak ==
    /\ (Moved /\ ev.ate = "cay" /\ ev.cays = 5) =>
           /\ game.freezeUntil = game.nowMs + 3000
           /\ game.teaStreak = 0
           /\ game.eventTone = "danger"
           /\ game.eventId = ev.prev.eventId + 1
    /\ (Moved /\ ev.ate = "cay" /\ ev.cays < 5) =>
           /\ game.teaStreak = ev.cays
           /\ game.freezeUntil = ev.prev.freezeUntil
           /\ game.eventTone = "boost"
    /\ (Moved /\ ev.ate = "cay" /\ ev.cays = 6) =>
           /\ game.teaStreak = 1
           /\ game.freezeUntil = ev.prev.freezeUntil
           /\ game.eventTone = "boost"
    /\ (Moved /\ ev.ate \notin {"", "cay"}) => game.teaStreak = 0

C9_Witness ==
    /\ Moved
    /\ ev.ate = "cay"
    /\ ev.cays = 6
    /\ game.teaStreak = 1
    /\ game.freezeUntil > 0


RECURSIVE DecimalOf(_)
DecimalOf(chars) ==
    IF chars = <<>> THEN -1
    ELSE LET last == chars[Len(chars)]
             digit == IF \E v \in 0..9 : DigitChars[v + 1] = last
                      THEN CHOOSE v \in 0..9 : DigitChars[v + 1] = last
                      ELSE -1
             rest == SubSeq(chars, 1, Len(chars) - 1)
         IN  IF digit = -1 THEN -1
             ELSE IF rest = <<>> THEN digit
             ELSE IF DecimalOf(rest) = -1 THEN -1
             ELSE DecimalOf(rest) * 10 + digit

(* C4: bestScore never decreases over tick, queueTurn and startNewRun; the    *)
(* stored item always denotes the bestScore in memory; so a page that is      *)
(* loaded again starts with a bestScore no smaller than the one reached.      *)
C4_BestScorePersists ==
    /\ game.bestScore >= ev.prev.bestScore
    /\ ev.op = "startNewRun" => game.bestScore = ev.prev.bestScore
    /\ DecimalOf(stored) = game.bestScore

C4_Witness ==
    /\ ev.op = "mount"
    /\ ev.prev.bestScore >= 19
    /\ ev.prev.phase = "running"
    /\ game.bestScore = ev.prev.bestScore
    /\ game.phase = "ready"

(* C11 as stated: a tick taken while the phase is ready or game over changes *)
(* nowMs and nothing else, eventTone included.                               *)
C11_Original ==
    (ev.op = "tick" /\ ev.prev.phase # "running") =>
        game = [ev.prev EXCEPT !.nowMs = game.nowMs]

(* C11 amended: a tick taken while the phase is ready or game over changes  *)
(* only nowMs and eventTone, and eventTone is null after it; every other    *)
(* field (snake, directions, food, charm, scores, timers and deadlines,     *)
(* traffic state, eventId, voiceLine) is as before.                         *)
C11_IdleTick ==
    (ev.op = "tick" /\ ev.prev.phase # "running") =>
        /\ game = [ev.prev EXCEPT !.nowMs = game.nowMs, !.eventTone = NoTone]
        /\ ev.kind = "idle"

C11_Witness ==
    /\ ev.op = "tick"
    /\ ev.prev.phase = "game_over"
    /\ ev.prev.eventTone = "dead"
    /\ game.eventTone = NoTone
    /\ game.nowMs > ev.prev.nowMs
    /\ game.voiceLine = ev.prev.voiceLine

FreshRun(g, prev) ==
    /\ g.phase = "running"
    /\ g.snake = <<Point(8, 6), Point(7, 6), Point(6, 6), Point(5, 6)>>
    /\ g.direction = DIRECTIONS.right
    /\ g.pendingDirection = DIRECTIONS.right
    /\ g.score = 0
    /\ g.nazar = NoNazar
    /\ g.trafficState = "none" /\ g.trafficUntil = 0
    /\ g.teaStreak = 0
    /\ Deadlines(g) = <<0, 0, 0, 0>>
    /\ g.overlayKey = "null" /\ g.overlayUntil = 0
    /\ g.gameOverLine = ""
    /\ g.lastStepAt = g.nowMs
    /\ g.nextTrafficAt - g.nowMs \in 9000..13000
    /\ g.nextNazarAt - g.nowMs \in 10000..16000
    /\ InGrid(FoodCell(g)) /\ FoodCell(g) \notin SeqToSet(g.snake)
    /\ g.food.type \in FoodTypes
    /\ g.bestScore = prev.bestScore
    /\ g.eventTone = "start"
    /\ g.eventId = prev.eventId + 1
    /\ g.voiceLine = "Afiyet olsun abi, basladik."

C13_Original ==
    (ev.op = "queueTurn" /\ ev.req = ev.prev.direction) => game = ev.prev

(* C13 amended: queueTurn with the current direction changes no field but     *)
(* pendingDirection, which becomes that direction: the state is as before     *)
(* when no different turn was queued (or the game is over), and a different   *)
(* turn queued since the last movement step is replaced by the request.       *)
C13_SameDirection ==
    (ev.op = "queueTurn" /\ ev.req = ev.prev.direction) =>
        /\ game = [ev.prev EXCEPT !.pendingDirection =
                       IF ev.prev.phase = "game_over" THEN ev.prev.pendingDirection
                       ELSE ev.req]
        /\ (ev.prev.pendingDirection = ev.prev.direction) => game = ev.prev

C13_Witness ==
    /\ ev.op = "queueTurn"
    /\ ev.req = ev.prev.direction
    /\ ev.prev.phase = "running"
    /\ ev.prev.pendingDirection # ev.prev.direction
    /\ game.pendingDirection = ev.prev.direction
    /\ game.snake = ev.prev.snake

InGridBounded(p) ==
    p.x >= 0 /\ p.x < GRID_COLS_BOUNDED /\ p.y >= 0 /\ p.y < GRID_ROWS_BOUNDED

(* C14: the phase goes from running to game over only in a tick's movement  *)
(* step whose new head is on a segment of the snake (both variants) or, in  *)
(* the bounded variant, outside the 22 x 14 grid; no other operation ends a *)
(* run; and once the phase is not ready no operation makes it ready again.  *)
C14_OnlyCollisionEnds ==
    /\ (ev.prev.phase = "running" /\ game.phase = "game_over") =>
           /\ Died
           /\ \/ ev.newHead \in SeqToSet(ev.prev.snake)
              \/ IsBounded /\ ~InGridBounded(ev.newHead)
    /\ (ev.prev.phase # "running" /\ ev.op # "mount") => game.phase # "running" \/ ev.op = "startNewRun"
    /\ (ev.prev.phase # "ready") => game.phase # "ready"
    /\ (game.phase = "ready") => game.eventId = 0

(* the bounded variant: a run ends on the bottom wall *)
C14_Witness ==
    /\ Died
    /\ IsBounded
    /\ ev.newHead.y = GRID_ROWS_BOUNDED
    /\ ev.newHead \notin SeqToSet(ev.prev.snake)
    /\ game.phase = "game_over"

(* the toroidal variant: a run ends on the snake's own tail *)
C14_WitnessToroidal ==
    /\ Died
    /\ ~IsBounded
    /\ ev.newHead \in SeqToSet(ev.prev.snake)
    /\ game.phase = "game_over"

TableScore ==
    [simit |-> 8, doner |-> 12, baklava |-> 16, cay |-> 7, ayran |-> 9, kahve |-> 10,
     raki |-> 11]

(* The deadlines <<speedBoostUntil, slowUntil, drunkUntil>> the table gives for *)
(* a food of type t eaten at time now from state prev                          *)
TableDeadlines(t, prev, now) ==
    <<IF t = "simit" THEN Max(prev.speedBoostUntil, now + 4200)
      ELSE IF t = "cay" THEN Max(prev.speedBoostUntil, now + 3000)
      ELSE prev.speedBoostUntil,
      IF t = "baklava" THEN Max(prev.slowUntil, now + 5200)
      ELSE IF t = "ayran" THEN Max(prev.slowUntil, now + 5000)
      ELSE prev.slowUntil,
      IF t = "raki" THEN Max(prev.drunkUntil, now + 5000) ELSE prev.drunkUntil>>

C15_WitnessTypes ==
    /\ Moved
    /\ ev.ate = "ayran"
    /\ ev.prev.slowUntil > game.nowMs
    /\ game.slowUntil = ev.prev.slowUntil

Simulation(g) ==
    <<g.phase, g.snake, g.direction, g.pendingDirection, g.food, g.nazar, g.score,
      g.bestScore, g.lastStepAt, g.nowMs, Deadlines(g), g.teaStreak, g.trafficState,
      g.trafficUntil, g.nextTrafficAt, g.nextNazarAt>>

C17_ChatOnlyInBreak ==
    /\ canWriteInChat(timer) => timer.phase = "break"
    /\ timer.phase = "break" => timer.hasStartedPomodoro
    /\ (ev.op = "second" /\ ev.prev.phase = "break" /\ ev.prev.secondsLeft = 1) =>
           /\ ~canWriteInChat(timer)
           /\ ~timer.isRunning
           /\ canWriteInChat(ev.prev)
    /\ (canWriteInChat(timer) /\ ~canWriteInChat(ev.prev)) =>
           /\ ev.op = "second"
           /\ ev.prev.phase = "focus"
           /\ ev.focusTicks = 1500
           /\ ev.startedSince

(* the permission is given by the callback that ends a full focus countdown *)
C17_Witness ==
    /\ canWriteInChat(timer)
    /\ ~canWriteInChat(ev.prev)
    /\ ev.op = "second"
    /\ ev.focusTicks = 1500
    /\ timer.secondsLeft = 300

C17_WitnessBreakEnd ==
    /\ ev.op = "second"
    /\ ev.prev.phase = "break"
    /\ ev.prev.secondsLeft = 1
    /\ ~timer.isRunning
    /\ timer.phase = "focus"

(* C18: after a tick in which food is eaten the new food cell is on no snake *)
(* segment, the new head included, and not on a live charm, whatever the     *)
(* size of the snake, also when it covers the whole grid; and the food is on *)
(* no snake cell in any reachable state.                                     *)
C18_FoodOffSnake ==
    /\ FoodCell(game) \notin SeqToSet(game.snake)
    /\ (Moved /\ ev.ate # "") =>
           /\ FoodCell(game) \notin SeqToSet(game.snake)
           /\ game.nazar # NoNazar => FoodCell(game) # game.nazar[1]

(* C19: a charm appears only in a tick of a running game that had no charm  *)
(* and whose timestamp has reached nextNazarAt; it is placed on a cell that *)
(* is neither a snake segment nor the food cell; nextNazarAt becomes now + r *)
(* with 12000 <= r <= 18000; and a present charm is on no snake segment in  *)
(* any reachable state.                                                     *)
C19_CharmSpawn ==
    /\ game.nazar # NoNazar => game.nazar[1] \notin SeqToSet(game.snake)
    /\ (game.nazar # NoNazar /\ ev.prev.nazar = NoNazar /\ game # ev.prev) =>
           /\ ev.op = "tick"
           /\ ev.prev.phase = "running"
           /\ game.nowMs >= ev.prev.nextNazarAt
           /\ game.nazar[1] \notin SeqToSet(ev.prev.snake)
           /\ game.nazar[1] # FoodCell(ev.prev)
           /\ game.nextNazarAt - game.nowMs \in 12000..18000

C20_WitnessBoosted ==
    /\ Moved
    /\ ev.prev.nazar # NoNazar
    /\ ev.newHead = ev.prev.nazar[1]
    /\ ev.prev.speedBoostUntil > game.nowMs + 3600
    /\ game.speedBoostUntil = ev.prev.speedBoostUntil

(* The fields a movement step writes and a pause must leave alone *)
Motion(g) ==
    <<g.snake, g.direction, g.score, g.food, g.teaStreak, g.speedBoostUntil,
      g.slowUntil, g.freezeUntil, g.drunkUntil, g.lastStepAt>>

(* The light is red and its window still open at the state's own time *)
RedNow(g) == g.trafficState = "red" /\ g.nowMs < g.trafficUntil

(* C21: a tick of a running game in which the light (after the tick's own   *)
(* light lifecycle) is red with now < trafficUntil, or in which              *)
(* now < freezeUntil, does not move: snake, direction, score, food,          *)
(* teaStreak, the modifier deadlines and lastStepAt stay as they were,       *)
(* while a light that is due starts or ends and a charm that is due appears. *)
C21_HardPause ==
    (/\ ev.op = "tick"
     /\ ev.prev.phase = "running"
     /\ RedNow(game) \/ game.nowMs < ev.prev.freezeUntil) =>
        /\ ev.kind = "paused"
        /\ Motion(game) = Motion(ev.prev)
        /\ game.phase = "running"
        /\ (ev.prev.trafficState # "none" /\ game.nowMs >= ev.prev.trafficUntil) =>
               game.trafficState = "none"
        /\ (ev.prev.trafficState = "none" /\ game.nowMs >= ev.prev.nextTrafficAt) =>
               game.trafficState # "none"
        /\ (ev.prev.nazar = NoNazar /\ game.nowMs >= ev.prev.nextNazarAt) =>
               game.nazar # NoNazar

(* A charm appears in a tick paused by a red light *)
C21_Witness ==
    /\ ev.op = "tick"
    /\ ev.kind = "paused"
    /\ RedNow(game)
    /\ ev.prev.nazar = NoNazar
    /\ game.nazar # NoNazar
    /\ Motion(game) = Motion(ev.prev)

(* A red light starts in a tick and pauses that same tick *)
C21_WitnessLightStarts ==
    /\ ev.op = "tick"
    /\ ev.kind = "paused"
    /\ ev.prev.trafficState = "none"
    /\ RedNow(game)
    /\ game.nowMs - ev.prev.lastStepAt >= getSpeedMs(ev.prev, game.nowMs)

(* A tick paused by the tea break alone, late enough for a step otherwise *)
C21_WitnessFreeze ==
    /\ ev.op = "tick"
    /\ ev.kind = "paused"
    /\ ~RedNow(game)
    /\ game.nowMs < ev.prev.freezeUntil
    /\ game.nowMs - ev.prev.lastStepAt >= getSpeedMs(game, game.nowMs)

(* C22: the light goes only from none to red or green and from red or green *)
(* back to none.  A light that starts in a tick gets trafficUntil = now +    *)
(* 2400 (red) or now + 4200 (green); a tick of a running game with a light   *)
(* on ends it exactly when now >= trafficUntil; the tick that ends it sets   *)
(* nextTrafficAt to now + r with 9000 <= r <= 14000; and a light never       *)
(* starts less than 9000 ms after the last one went back to none.            *)
C22_TrafficLifecycle ==
    /\ game.trafficState # ev.prev.trafficState =>
           (game.trafficState = "none" \/ ev.prev.trafficState = "none")
    /\ (ev.op = "tick" /\ ev.prev.trafficState = "none" /\ game.trafficState # "none") =>
           /\ game.trafficUntil = game.nowMs +
                  (IF game.trafficState = "red" THEN 2400 ELSE 4200)
           /\ ev.lightOff >= 0 => game.nowMs - ev.lightOff >= 9000
    /\ (ev.op = "tick" /\ ev.prev.phase = "running" /\ ev.prev.trafficState # "none") =>
           /\ game.trafficState = "none" <=> game.nowMs >= ev.prev.trafficUntil
           /\ game.trafficState = "none" =>
                  /\ game.nextTrafficAt - game.nowMs \in 9000..14000
                  /\ ev.lightOff = game.nowMs

(* A light starts after an earlier one has ended in the same component *)
C22_Witness ==
    /\ ev.op = "tick"
    /\ ev.prev.trafficState = "none"
    /\ game.trafficState # "none"
    /\ ev.lightOff >= 0
    /\ game.nowMs - ev.lightOff = 9000

(* A green light ends in the first tick at or after its window *)
C22_WitnessGreenEnds ==
    /\ ev.op = "tick"
    /\ ev.prev.trafficState = "green"
    /\ game.trafficState = "none"
    /\ game.nowMs = ev.prev.trafficUntil
    /\ game.nextTrafficAt = game.nowMs + 14000

Clamp(v, lo, hi) == IF v < lo THEN lo ELSE IF v > hi THEN hi ELSE v

Bit(b) == IF b THEN 1 ELSE 0

(* C23: getSpeedMs(state, now) is 138, less 30 when now < speedBoostUntil,  *)
(* plus 36 when now < slowUntil, less 20 when the light is green and         *)
(* now < trafficUntil, the three summed on the one base and the sum clamped  *)
(* once to 72..235.                                                          *)
C23_SpeedFormula ==
    ev.op = "getSpeedMs" =>
        ev.speed = Clamp(138 - 30 * Bit(ev.now < game.speedBoostUntil)
                             + 36 * Bit(ev.now < game.slowUntil)
                             - 20 * Bit(game.trafficState = "green" /\ ev.now < game.trafficUntil),
                         72, 235)

(* All three effects at once *)
C23_Witness ==
    /\ ev.op = "getSpeedMs"
    /\ ev.now < game.speedBoostUntil
    /\ ev.now < game.slowUntil
    /\ game.trafficState = "green" /\ ev.now < game.trafficUntil
    /\ ev.speed = 124

(* A deadline equal to now no longer counts *)
C23_WitnessBoundary ==
    /\ ev.op = "getSpeedMs"
    /\ ev.now = game.speedBoostUntil
    /\ ev.now < game.slowUntil
    /\ ev.speed = 174

(* The step interval a tick's speed gate works with: getSpeedMs on the state *)
(* after the tick's own light lifecycle, with the deadlines as they were     *)
GateSpeed ==
    getSpeedMs([ev.prev EXCEPT !.trafficState = game.trafficState,
                               !.trafficUntil = game.trafficUntil], game.nowMs)

(* C24: a tick moves the snake (or ends the run) only when now - lastStepAt  *)
(* has reached getSpeedMs(state, now); a tick held back by the gate leaves   *)
(* snake, direction, score, food and lastStepAt as they were; so a movement  *)
(* step comes no sooner than that interval after the movement step before it *)
(* or, for the first step of a run, after startNewRun.                       *)
C24_SpeedGate ==
    /\ game.phase = "running" => game.lastStepAt = ev.stepAt
    /\ Stepped =>
           /\ game.nowMs - ev.prev.lastStepAt >= GateSpeed
           /\ game.nowMs - ev.stepWas >= GateSpeed
    /\ (ev.op = "tick" /\ ev.kind = "gated") =>
           /\ game.nowMs - ev.prev.lastStepAt < GateSpeed
           /\ game.snake = ev.prev.snake
           /\ game.direction = ev.prev.direction
           /\ game.score = ev.prev.score
           /\ game.food = ev.prev.food
           /\ game.lastStepAt = ev.prev.lastStepAt
    /\ (ev.op = "tick" /\ ev.prev.phase = "running"
          /\ game.nowMs - ev.prev.lastStepAt < GateSpeed) => ~Stepped

(* A step two ticks after the last one, the interval cut to 88 ms by a simit *)
(* and a green light                                                         *)
C24_Witness ==
    /\ Moved
    /\ GateSpeed = 88
    /\ game.nowMs - ev.stepWas = 2 * TICK_MS
    /\ ev.stepWas > MountMs

(* A tick held back although a whole tick period has passed since the step *)
C24_WitnessGated ==
    /\ ev.op = "tick"
    /\ ev.kind = "gated"
    /\ game.nowMs - ev.prev.lastStepAt = 2 * TICK_MS
    /\ GateSpeed = 138

(* The first step of a run, three ticks after its start *)
C24_WitnessFirstStep ==
    /\ Moved
    /\ ev.stepWas = MountMs
    /\ game.nowMs - ev.stepWas = 3 * TICK_MS

(* n copies of the cell p *)
Copies(p, n) == [i \in 1..n |-> p]

(* C25: a movement step that eats food of growth n yields the new head, then *)
(* the previous snake, then n - 1 copies of the previous tail cell: length   *)
(* plus n.  A movement step that eats no food yields the new head and the    *)
(* previous snake without its tail: the same length.  No tick and no turn    *)
(* request makes the snake shorter.                                          *)
C25_Growth ==
    /\ (Moved /\ ev.ate # "") =>
           LET n == FOOD_META[ev.ate].grow
               old == ev.prev.snake
           IN  /\ game.snake = <<ev.newHead>> \o old \o Copies(old[Len(old)], n - 1)
               /\ Len(game.snake) = Len(old) + n
    /\ (Moved /\ ev.ate = "") =>
           LET old == ev.prev.snake
           IN  /\ game.snake = <<ev.newHead>> \o SubSeq(old, 1, Len(old) - 1)
               /\ Len(game.snake) = Len(old)
    /\ ev.op \in {"tick", "queueTurn"} => Len(game.snake) >= Len(ev.prev.snake)

(* A doner eaten by a snake that has grown before: two cells more *)
C25_Witness ==
    /\ Moved
    /\ ev.ate = "doner"
    /\ Len(ev.prev.snake) > 4
    /\ Len(game.snake) = Len(ev.prev.snake) + 2

(* A food of growth 1 *)
C25_WitnessOne ==
    /\ Moved
    /\ ev.ate \in {"baklava", "raki"}
    /\ Len(game.snake) = Len(ev.prev.snake) + 1

(* The direction the last operation's step had to take: the last request   *)
(* accepted since the step before, or the direction kept when none came    *)
LastAsked == IF ev.askedWas = <<>> THEN ev.prev.direction ELSE ev.askedWas[2]

(* C26: of the queueTurn calls that arrive between two movement steps the   *)
(* last accepted one decides: pendingDirection always holds it (or the      *)
(* current direction when none was accepted), the next step goes that way,  *)
(* and after a movement step direction and pendingDirection are both that   *)
(* direction, so that no earlier request is left to act on a later step.    *)
C26_LastWriteWins ==
    /\ game.pendingDirection = (IF ev.asked = <<>> THEN game.direction ELSE ev.asked[2])
    /\ Moved =>
           /\ game.direction = LastAsked
           /\ game.pendingDirection = game.direction
    /\ (Stepped /\ game.nowMs >= ev.prev.drunkUntil) =>
           ev.newHead = TorusStep(ev.prev.snake[1], LastAsked)

(* Two different turns accepted since the last step; the step takes the second *)
C26_Witness ==
    /\ Moved
    /\ ev.askedWas # <<>>
    /\ ev.askedWas[1] # ev.askedWas[2]
    /\ ev.askedWas[1] # ev.prev.direction
    /\ ev.askedWas[2] # ev.prev.direction
    /\ game.direction = ev.askedWas[2]

(* The step after a turn, with no new request: straight on in the turned direction *)
C26_WitnessNextStep ==
    /\ Moved
    /\ ev.askedWas = <<>>
    /\ game.direction # DIRECTIONS.right
    /\ Len(game.snake) = 4

(* The head's displacement on one axis of the torus: -1, 0 or 1 *)
AxisShift(from, to, size) ==
    IF to = from THEN 0
    ELSE IF to = (from + 1) % size THEN 1
    ELSE IF to = (from + size - 1) % size THEN -1
    ELSE size

(* C27: a step taken while now < drunkUntil puts the head one cell on along *)
(* the travel direction and one cell, to either side, along the other axis, *)
(* both on the torus; a step taken while now >= drunkUntil puts it one cell *)
(* on along the travel direction and nowhere sideways.  drunkUntil is read  *)
(* before the food is eaten: the step that eats a raki while sober goes     *)
(* straight.                                                                *)
C27_DrunkWobble ==
    /\ Stepped =>
           LET head == ev.prev.snake[1]
               d == ev.prev.pendingDirection
               dx == AxisShift(head.x, ev.newHead.x, GRID_COLS)
               dy == AxisShift(head.y, ev.newHead.y, GRID_ROWS)
           IN  IF game.nowMs < ev.prev.drunkUntil
               THEN IF d.x # 0 THEN dx = d.x /\ dy \in {-1, 1}
                               ELSE dy = d.y /\ dx \in {-1, 1}
               ELSE dx = d.x /\ dy = d.y
    /\ (Moved /\ ev.ate = "raki" /\ game.nowMs >= ev.prev.drunkUntil) =>
           /\ ev.newHead = TorusStep(ev.prev.snake[1], ev.prev.pendingDirection)
           /\ game.drunkUntil = game.nowMs + 5000

(* A drunk step to the right that drifts up *)
C27_Witness ==
    /\ Moved
    /\ game.nowMs < ev.prev.drunkUntil
    /\ ev.prev.pendingDirection = DIRECTIONS.right
    /\ ev.newHead.x = ev.prev.snake[1].x + 1
    /\ ev.newHead.y = ev.prev.snake[1].y - 1

(* A drunk step to the right that drifts down *)
C27_WitnessOtherSide ==
    /\ Moved
    /\ game.nowMs < ev.prev.drunkUntil
    /\ ev.prev.pendingDirection = DIRECTIONS.right
    /\ ev.newHead.x = ev.prev.snake[1].x + 1
    /\ ev.newHead.y = ev.prev.snake[1].y + 1

(* A drunk step along a column, drifting across a row *)
C27_WitnessVertical ==
    /\ Moved
    /\ game.nowMs < ev.prev.drunkUntil
    /\ ev.prev.pendingDirection.y # 0
    /\ ev.newHead.x # ev.prev.snake[1].x

(* The sober step that eats the raki *)
C27_WitnessRaki ==
    /\ Moved
    /\ ev.ate = "raki"
    /\ ev.prev.drunkUntil = 0
    /\ ev.newHead.y = ev.prev.snake[1].y

(* A raki eaten on a drunk step *)
C27_WitnessSecondRaki ==
    /\ Moved
    /\ ev.ate = "raki"
    /\ game.nowMs < ev.prev.drunkUntil

(* What the last tick did that calls for a flavor event *)
LightStarted ==
    ev.op = "tick" /\ ev.prev.phase = "running"
        /\ ev.prev.trafficState = "none" /\ game.trafficState # "none"

Consumed == Moved /\ (ev.ate # "" \/ ev.ateNazar)

LightLines == {"Kirmizi isik. Dur!", "Yesil yandi. Bas gaza!"}

(* The tone of the event for each food, SnakeDonerGame.tsx:860-907 *)
FoodTones ==
    [simit |-> {"boost"}, doner |-> {"eat"}, baklava |-> {"eat"}, cay |-> {"boost", "danger"},
     ayran |-> {"danger"}, kahve |-> {"fortune"}, raki |-> {"danger"}]

(* C28: a tick raises eventId by exactly 1 when a light starts, a charm or  *)
(* food is consumed or the snake dies in it, and otherwise leaves eventId   *)
(* and voiceLine alone and clears eventTone.  The one event of a tick in    *)
(* which the snake dies is the death, of a tick in which food or a charm is *)
(* consumed the consumption, also when a light starts in the same tick; a   *)
(* light that starts in a tick without them is the event itself.            *)
C28_OneEventPerTick ==
    ev.op = "tick" =>
        /\ IF LightStarted \/ Consumed \/ Died
           THEN /\ game.eventId = ev.prev.eventId + 1
                /\ game.eventTone # NoTone
           ELSE /\ game.eventId = ev.prev.eventId
                /\ game.voiceLine = ev.prev.voiceLine
                /\ game.eventTone = NoTone
        /\ Died =>
               /\ game.eventTone = "dead"
               /\ game.voiceLine \in SeqToSet(DEATH_LINES)
               /\ game.voiceLine = game.gameOverLine
        /\ (Moved /\ ev.ate # "") =>
               /\ game.eventTone \in FoodTones[ev.ate]
               /\ game.voiceLine \notin LightLines
               /\ game.voiceLine # "Nazar enerjisi. Hizlandin!"
        /\ (Moved /\ ev.ate = "" /\ ev.ateNazar) =>
               /\ game.eventTone = "boost"
               /\ game.voiceLine = "Nazar enerjisi. Hizlandin!"
        /\ (LightStarted /\ ~Consumed /\ ~Died) =>
               /\ game.voiceLine \in LightLines
               /\ game.eventTone = (IF game.trafficState = "red" THEN "danger" ELSE "boost")

(* A green light starts in the tick in which a doner is eaten: one event, the doner's *)
C28_Witness ==
    /\ LightStarted
    /\ Moved
    /\ ev.ate = "doner"
    /\ game.eventId = ev.prev.eventId + 1
    /\ game.eventTone = "eat"

(* A light starts in the tick in which the charm is taken *)
C28_WitnessCharm ==
    /\ LightStarted
    /\ Moved
    /\ ev.ateNazar
    /\ game.voiceLine = "Nazar enerjisi. Hizlandin!"

(* A light starts in the tick in which the snake dies *)
C28_WitnessDeath ==
    /\ LightStarted
    /\ Died
    /\ game.eventTone = "dead"

(* A light starts in a tick that moves and eats nothing: the light is the event *)
C28_WitnessLight ==
    /\ LightStarted
    /\ Moved
    /\ ~Consumed
    /\ game.eventTone = "boost"

(* A moving tick without an event, after a tick with one *)
C28_WitnessQuiet ==
    /\ Moved
    /\ ~Consumed
    /\ ~LightStarted
    /\ ev.prev.eventTone # NoTone
    /\ game.eventTone = NoTone

(* C29: in every reachable state pendingDirection is not the opposite of    *)
(* direction, and a movement step never goes the opposite way of the step   *)
(* before it (whose direction the state still holds), whatever requests and *)
(* ticks came in between.                                                   *)
C29_NeverReversed ==
    /\ ~isOpposite(game.pendingDirection, game.direction)
    /\ Stepped => ~isOpposite(ev.prev.pendingDirection, ev.prev.direction)
    /\ Moved => ~isOpposite(game.direction, ev.prev.direction)

(* A request accepted although it reverses the turn queued before it *)
C29_Witness ==
    /\ ev.op = "queueTurn"
    /\ ev.prev.phase = "running"
    /\ ev.prev.pendingDirection # ev.prev.direction
    /\ isOpposite(ev.req, ev.prev.pendingDirection)
    /\ game.pendingDirection = ev.req

(* A step that turns, in a run that has turned before *)
C29_WitnessTurn ==
    /\ Moved
    /\ game.direction # ev.prev.direction
    /\ ev.prev.direction # DIRECTIONS.right

(* The cells at distance one on the torus along one axis, the other unchanged *)
OneCellApart(p, q) ==
    \/ p.y = q.y /\ AxisShift(p.x, q.x, GRID_COLS) \in {-1, 1}
    \/ p.x = q.x /\ AxisShift(p.y, q.y, GRID_ROWS) \in {-1, 1}

(* C30: one tick makes at most one movement step, however long ago the last *)
(* one was: after a tick that moved, the second segment is the old head and *)
(* the old segments follow in order, the head lies one cell from the old    *)
(* head (one more sideways when drunk), and lastStepAt is the tick's now;   *)
(* after a tick that did not move the snake and lastStepAt are as before.   *)
C30_OneStepPerTick ==
    /\ Moved =>
           LET old == ev.prev.snake
           IN  /\ game.lastStepAt = game.nowMs
               /\ game.snake[1] = ev.newHead
               /\ \A i \in 1..(Len(old) - 1) : game.snake[i + 1] = old[i]
               /\ IF game.nowMs < ev.prev.drunkUntil
                  THEN \E side \in Sideways(ev.prev.pendingDirection) :
                           OneCellApart(old[1], TorusStep(ev.newHead, side))
                  ELSE OneCellApart(old[1], ev.newHead)
    /\ (ev.op = "tick" /\ ~Moved) =>
           /\ game.snake = ev.prev.snake
           /\ game.lastStepAt = ev.prev.lastStepAt

(* A tick that comes ten periods late, with time for four steps, makes one *)
C30_Witness ==
    /\ Moved
    /\ game.nowMs - ev.prev.nowMs = MaxLagTicks * TICK_MS
    /\ game.nowMs - ev.prev.lastStepAt >= 4 * GateSpeed
    /\ ev.prev.lastStepAt > MountMs
    /\ game.lastStepAt = game.nowMs

(* After a late tick the next tick, one period on, is held back by the gate *)
C30_WitnessNoCatchUp ==
    /\ ev.op = "tick"
    /\ ev.kind = "gated"
    /\ game.nowMs - ev.prev.lastStepAt = TICK_MS
    /\ ev.prev.lastStepAt = ev.prev.nowMs
    /\ ev.prev.nowMs - MountMs >= MaxLagTicks * TICK_MS

---------------------------------------------------------------------------
(* The longest wait of a running snake for its next step: a forced tea     *)
(* break, a red light that came on during it, and the tick after them      *)
PauseMs == TEA_FREEZE_MS + RED_MS + TICK_MS

(* C31: while the run is on and the ticks keep coming (here: the horizon is *)
(* at least PauseMs away), the snake takes a movement step or the run ends, *)
(* so every red light and every forced tea break has ended by then;         *)
(* freezeUntil is only changed by a movement step or a new run.             *)
C31_Progress ==
    /\ (game.phase = "running" /\ game.nowMs + PauseMs <= LiveProfile.horizon)
           ~> (Stepped \/ game.phase # "running")
    /\ [](game.freezeUntil # ev.prev.freezeUntil => Moved \/ ev.op = "startNewRun")

(* a movement step that ends a wait of a tea break and a red light that    *)
(* outlasted it                                                            *)
C31_Witness ==
    /\ Moved
    /\ ev.prev.freezeUntil = ev.prev.lastStepAt + TEA_FREEZE_MS
    /\ ev.prev.trafficState = "red"
    /\ ev.prev.trafficUntil > ev.prev.freezeUntil
    /\ game.nowMs - ev.prev.lastStepAt > TEA_FREEZE_MS + TICK_MS

---------------------------------------------------------------------------
(* What a pickup adds to its deadline, by food type *)
BoostOf(ate) ==
    IF ate = "simit" THEN SIMIT_BOOST_MS ELSE IF ate = "cay" THEN CAY_BOOST_MS ELSE 0

SlowOf(ate) ==
    IF ate = "baklava" THEN BAKLAVA_SLOW_MS ELSE IF ate = "ayran" THEN AYRAN_SLOW_MS ELSE 0

Raised(old, now, ms) == IF ms = 0 THEN old ELSE Max(old, now + ms)

(* C32: a tick never lowers speedBoostUntil, slowUntil, drunkUntil or       *)
(* freezeUntil and only a movement step changes them: a pickup raises its   *)
(* deadline to the maximum of the old value and now + its duration, and     *)
(* freezeUntil is written (now + 3000) only by a step, which comes at       *)
(* now >= the old freezeUntil; queueTurn leaves the four alone; only         *)
(* startNewRun sets them back, to 0.                                         *)
C32_DeadlinesMonotone ==
    /\ ev.op = "tick" =>
           /\ \A i \in 1..4 : Deadlines(game)[i] >= Deadlines(ev.prev)[i]
           /\ ~Moved => Deadlines(game) = Deadlines(ev.prev)
    /\ Moved =>
           /\ game.speedBoostUntil =
                  Raised(Raised(ev.prev.speedBoostUntil, game.nowMs,
                                IF ev.ateNazar THEN NAZAR_BOOST_MS ELSE 0),
                         game.nowMs, BoostOf(ev.ate))
           /\ game.slowUntil = Raised(ev.prev.slowUntil, game.nowMs, SlowOf(ev.ate))
           /\ game.drunkUntil = Raised(ev.prev.drunkUntil, game.nowMs,
                                       IF ev.ate = "raki" THEN RAKI_DRUNK_MS ELSE 0)
           /\ game.freezeUntil # ev.prev.freezeUntil =>
                  /\ game.freezeUntil = game.nowMs + TEA_FREEZE_MS
                  /\ game.nowMs >= ev.prev.freezeUntil
                  /\ ev.ate = "cay"
    /\ ev.op = "queueTurn" => Deadlines(game) = Deadlines(ev.prev)
    /\ ev.op = "startNewRun" => Deadlines(game) = <<0, 0, 0, 0>>

(* a cay eaten while a simit's boost lasts longer than the cay's would:    *)
(* the deadline stays                                                      *)
C32_Witness ==
    /\ Moved
    /\ ev.ate = "cay"
    /\ ev.prev.speedBoostUntil > game.nowMs + CAY_BOOST_MS
    /\ game.speedBoostUntil = ev.prev.speedBoostUntil

(* a run that ended with deadlines still ahead is started again *)
C32_WitnessReset ==
    /\ ev.op = "startNewRun"
    /\ ev.prev.phase = "game_over"
    /\ ev.prev.speedBoostUntil > game.nowMs
    /\ game.speedBoostUntil = 0

(* the forced break is set by the step that eats the fifth cay *)
C32_WitnessFreeze ==
    /\ Moved
    /\ ev.prev.freezeUntil = 0
    /\ game.freezeUntil = game.nowMs + TEA_FREEZE_MS

(* a second baklava raises slowUntil further *)
C32_WitnessRaised ==
    /\ Moved
    /\ ev.prev.slowUntil > game.nowMs
    /\ game.slowUntil > ev.prev.slowUntil

---------------------------------------------------------------------------
(* C33: teaStreak is always one of 0..4 (the number of cay eaten in a row,  *)
(* counted modulo 5), and freezeUntil is non-zero only from the step that   *)
(* ate a cay at teaStreak = 4 (the fifth in a row) onwards: a state with    *)
(* freezeUntil # 0 either was made by that step or follows, within the same *)
(* run, a state in which freezeUntil had the same non-zero value.           *)
C33_StreakRange ==
    /\ game.teaStreak \in 0..(TEA_LIMIT - 1)
    /\ game.teaStreak = ev.cays % TEA_LIMIT
    /\ ev.op \in {"mount", "startNewRun"} => game.freezeUntil = 0
    /\ game.freezeUntil # 0 =>
           \/ /\ Moved
              /\ ev.ate = "cay"
              /\ ev.prev.teaStreak = TEA_LIMIT - 1
              /\ ev.cays = TEA_LIMIT
           \/ /\ ev.op \in {"tick", "queueTurn"}
              /\ ev.prev.freezeUntil = game.freezeUntil

(* the streak stands at four *)
C33_Witness ==
    /\ Moved
    /\ ev.ate = "cay"
    /\ game.teaStreak = TEA_LIMIT - 1
    /\ game.freezeUntil = 0

(* after the break another food is eaten: the streak is 0 and the deadline *)
(* of the break, now past, is still there                                  *)
C33_WitnessStale ==
    /\ Moved
    /\ ev.ate = "doner"
    /\ game.teaStreak = 0
    /\ game.freezeUntil # 0
    /\ game.freezeUntil <= game.nowMs

---------------------------------------------------------------------------
SpeedValues == {88, 108, 118, 124, 138, 144, 154, 174}

(* C34: getSpeedMs returns one of 88, 108, 118, 124, 138, 144, 154, 174,    *)
(* always strictly inside the clamp's bounds 72 and 235 and above 85, so    *)
(* the speed label of a state is never the one of its fastest band.         *)
C34_SpeedValues ==
    ev.op = "getSpeedMs" =>
        /\ ev.speed \in SpeedValues
        /\ MIN_SPEED_MS < ev.speed /\ ev.speed < MAX_SPEED_MS
        /\ ev.speed > 85
        /\ speedLabel([game EXCEPT !.nowMs = ev.now]) # "Cok hizli"

(* the shortest interval: a boost under a green light, labelled fast *)
C34_Witness ==
    /\ ev.op = "getSpeedMs"
    /\ ev.speed = 88
    /\ speedLabel([game EXCEPT !.nowMs = ev.now]) = "Hizli"

(* the longest interval: slowed and nothing else, labelled slow *)
C34_WitnessSlowest ==
    /\ ev.op = "getSpeedMs"
    /\ ev.speed = 174
    /\ speedLabel([game EXCEPT !.nowMs = ev.now]) = "Yavas"

(* the middle band: slowed under a green light *)
C34_WitnessNormal ==
    /\ ev.op = "getSpeedMs"
    /\ ev.speed = 154
    /\ speedLabel([game EXCEPT !.nowMs = ev.now]) = "Normal"

---------------------------------------------------------------------------
(* C35: there is at most one charm, and a charm that is there stays on its  *)
(* cell, with nextNazarAt as it was, through every tick (moving, gated or   *)
(* paused, also one with now >= nextNazarAt) and every queueTurn, until a   *)
(* movement step puts the head on its cell or startNewRun is called; a     *)
(* charm appears only in a tick with now >= nextNazarAt and no charm there. *)
C35_CharmStays ==
    /\ Len(game.nazar) <= 1
    /\ (ev.op = "tick" /\ ev.prev.nazar # NoNazar) =>
           /\ ev.ateNazar <=> (Moved /\ ev.newHead = ev.prev.nazar[1])
           /\ game.nazar = IF ev.ateNazar THEN NoNazar ELSE ev.prev.nazar
           /\ game.nextNazarAt = ev.prev.nextNazarAt
    /\ (ev.op = "tick" /\ ev.prev.nazar = NoNazar /\ game.nowMs < ev.prev.nextNazarAt) =>
           game.nazar = NoNazar /\ ~ev.ateNazar
    /\ (ev.op = "queueTurn") =>
           game.nazar = ev.prev.nazar /\ game.nextNazarAt = ev.prev.nextNazarAt
    /\ (ev.op = "startNewRun") => game.nazar = NoNazar

(* the next charm has come due and the first still lies where it appeared *)
C35_Witness ==
    /\ ev.op = "tick"
    /\ ev.prev.nazar # NoNazar
    /\ game.nowMs >= ev.prev.nextNazarAt
    /\ game.nowMs - NAZAR_MIN_MS >= MountMs + FIRST_NAZAR_MIN_MS
    /\ game.nazar = ev.prev.nazar

(* the head takes the charm *)
C35_WitnessTaken ==
    /\ Moved
    /\ ev.prev.nazar # NoNazar
    /\ ev.newHead = ev.prev.nazar[1]
    /\ game.nazar = NoNazar

(* the charm lies through a tick paused by a red light *)
C35_WitnessPaused ==
    /\ ev.op = "tick"
    /\ ev.kind = "paused"
    /\ ev.prev.nazar # NoNazar
    /\ game.nazar = ev.prev.nazar

(* after the first charm was taken the second appears when it is due *)
C35_WitnessSecond ==
    /\ ev.op = "tick"
    /\ ev.prev.nazar = NoNazar
    /\ game.nazar # NoNazar
    /\ game.nowMs - NAZAR_MIN_MS >= MountMs + FIRST_NAZAR_MIN_MS

---------------------------------------------------------------------------
(* The board: what the claim lists as left alone once the game is over *)
Board(g) ==
    <<g.snake, g.direction, g.pendingDirection, g.food, g.nazar, g.score, g.bestScore>>

(* The first movement step of a run: the snake is still the initial one     *)
(* (no run of SpecRest is long enough to lap the row and come back to it)   *)
FirstStep == Moved /\ ev.prev.snake = INITIAL_SNAKE /\ ev.prev.score = 0

Absorbing ==
    /\ (ev.prev.phase = "game_over" /\ ev.op \in {"tick", "queueTurn"}) =>
           /\ game.phase = "game_over"
           /\ Board(game) = Board(ev.prev)
    /\ (ev.prev.phase = "game_over" /\ game.phase # "game_over") =>
           ev.op = "startNewRun" /\ game.phase = "running"
    /\ (ev.prev.phase = "ready" /\ ev.op = "queueTurn") =>
           /\ game = [ev.prev EXCEPT !.pendingDirection = game.pendingDirection]
           /\ game.pendingDirection \in {ev.req, ev.prev.pendingDirection}
    /\ ev.op = "startNewRun" =>
           /\ game.direction = DIRECTIONS.right
           /\ game.pendingDirection = DIRECTIONS.right

(* C36 as stated: game over is left only by startNewRun and neither tick    *)
(* nor queueTurn changes the board in it; a turn queued in Ready is dropped *)
(* by startNewRun, and the first movement step of every run goes right.     *)
C36_Original ==
    /\ Absorbing
    /\ FirstStep => game.direction = DIRECTIONS.right

(* C36 amended: as above, but the first movement step of a run goes right   *)
(* only when no turn was accepted between startNewRun and that step;        *)
(* otherwise it goes where the last accepted turn asks.                     *)
C36_Absorbing ==
    /\ Absorbing
    /\ FirstStep =>
           game.direction = (IF ev.askedWas = <<>> THEN DIRECTIONS.right ELSE ev.askedWas[2])

(* a turn queued on the start overlay is gone when the run starts *)
C36_Witness ==
    /\ ev.op = "startNewRun"
    /\ ev.prev.phase = "ready"
    /\ ev.prev.pendingDirection # DIRECTIONS.right
    /\ game.pendingDirection = DIRECTIONS.right

(* a tick while the game is over *)
C36_WitnessTick ==
    /\ ev.op = "tick"
    /\ ev.prev.phase = "game_over"
    /\ game.nowMs > ev.prev.nowMs

(* a turn that a running game would accept, asked while the game is over *)
C36_WitnessTurn ==
    /\ ev.op = "queueTurn"
    /\ ev.prev.phase = "game_over"
    /\ ~isOpposite(ev.req, ev.prev.direction)
    /\ ev.req # ev.prev.pendingDirection

(* the first step of a run goes up: the turn came after startNewRun *)
C36_WitnessFirstUp ==
    /\ FirstStep
    /\ ev.askedWas # <<>>
    /\ game.direction = DIRECTIONS.up

---------------------------------------------------------------------------
(* C37: with two instances writing to the one best-score key in any        *)
(* interleaving, the stored value never decreases and is, after every      *)
(* write, the maximum of the best scores the instances have reached.       *)
C37_StoredMax ==
    /\ DecimalOf(stored) >= DecimalOf(ev.storedWas)
    /\ DecimalOf(stored) = Max(game[1].bestScore, game[2].bestScore)

---------------------------------------------------------------------------
C38_WitnessReset ==
    /\ ev.op = "reset"
    /\ ev.prev.phase = "break"
    /\ ~ev.prev.isRunning
    /\ ev.prev.secondsLeft < BREAK_SECONDS
    /\ timer = InitialTimer

(* the 1500th callback of the focus countdown starts the break *)
C38_WitnessBreakStarts ==
    /\ ev.op = "second"
    /\ ev.prev.phase = "focus"
    /\ ev.prev.secondsLeft = 1
    /\ ev.focusTicks = FOCUS_SECONDS
    /\ timer.phase = "break"
    /\ timer.secondsLeft = BREAK_SECONDS


(* C39: in the bounded variant a queueTurn(d) made while the controls are   *)
(* reversed leaves the state that queueTurn(-d) leaves outside the window:  *)
(* the request is inverted first and the opposite test is made on the       *)
(* inverted direction, so pendingDirection is never the opposite of         *)
(* direction and a request for the current direction is rejected while      *)
(* the window is open                                                       *)
Reversed(g) == g.nowMs < g.reverseUntil

Inverse(d) == Point(-d.x, -d.y)

C39_ReversedControls ==
    IsBounded =>
        /\ ~(/\ game.pendingDirection.x = -game.direction.x
             /\ game.pendingDirection.y = -game.direction.y)
        /\ (ev.op = "queueTurn" /\ Reversed(ev.prev)) =>
              /\ game = [queueTurnBounded([ev.prev EXCEPT !.reverseUntil = 0],
                                          Inverse(ev.req), ev.prev.nowMs)
                            EXCEPT !.reverseUntil = ev.prev.reverseUntil]
              /\ (ev.req = ev.prev.direction => game = ev.prev)
        /\ (ev.op = "queueTurn" /\ ~Reversed(ev.prev)) =>
              game = queueTurn(ev.prev, ev.req)

(* the current direction is asked for in the window while another turn is   *)
(* queued, and the queued turn stays                                        *)
C39_Witness ==
    /\ IsBounded
    /\ ev.op = "queueTurn"
    /\ Reversed(ev.prev)
    /\ ev.req = ev.prev.direction
    /\ ev.prev.pendingDirection # ev.prev.direction
    /\ game = ev.prev

(* a sideways request in the window queues the other sideways direction *)
C39_WitnessInverted ==
    /\ IsBounded
    /\ ev.op = "queueTurn"
    /\ Reversed(ev.prev)
    /\ ev.req.x # ev.prev.direction.x
    /\ ev.req # Inverse(ev.prev.direction)
    /\ game.pendingDirection = Inverse(ev.req)
    /\ game # ev.prev

(* the opposite of the current direction is asked for in the window and the *)
(* current direction is queued again over a queued turn                     *)
C39_WitnessBack ==
    /\ IsBounded
    /\ ev.op = "queueTurn"
    /\ Reversed(ev.prev)
    /\ ev.req = Inverse(ev.prev.direction)
    /\ ev.prev.pendingDirection # ev.prev.direction
    /\ game.pendingDirection = ev.prev.direction

=============================================================================
